---- MODULE Spec2Model ----
(***************************************************************************)
(* A model of the FAS multigrid solver of src/full_multigrid.{h,cpp}.      *)
(*                                                                         *)
(* real_t values are modelled as exact rationals <<num, den>> (den > 0,    *)
(* lowest terms), so that two equal reals are equal tuples; floating-point *)
(* round-off is not modelled.  A grid (arr_t) is a record with the fields  *)
(* nx, ny, nz, pts of the source and arr, its flat array [0..pts-1].       *)
(* The OpenMP site loops are modelled by their sequential meaning.         *)
(***************************************************************************)
EXTENDS Integers, Sequences, FiniteSets, TLC

VARIABLES
  NX, NY, NZ,            \* host macros: the finest dimensions
  u_n, molecule_n,       \* number of variables, molecules per equation
  max_depth, max_relax_iters, relaxation_tolerance, relax_scheme,
  nx_h, ny_h, nz_h,      \* dimensions by depth index
  eqns,                  \* eqns[e][m]: molecule (atoms, atom_n, const_coef, cap)
  u_h, tmp_h, coarse_src_h, jac_rhs_h, damping_v_h, rho_h,
  pc,                    \* position in the running call
  loc,                   \* the locals of the running calls
  log,                   \* the bulk steps executed so far, in order
  out                    \* what the calls reported (warnings, overruns, last results)

cfgvars == <<NX, NY, NZ, u_n, molecule_n, max_depth, max_relax_iters,
             relaxation_tolerance, relax_scheme, nx_h, ny_h, nz_h>>
gridvars == <<u_h, tmp_h, coarse_src_h, jac_rhs_h, damping_v_h, rho_h>>
vars == <<cfgvars, eqns, gridvars, pc, loc, log, out>>

----------------------------------------------------------------------------
(* real_t as exact rationals *)

\* an array as it lies in memory: every cell holds its value.  TLC evaluates a
\* function constructor cell by cell on demand; the comparison evaluates all
Stored(f) == IF f = f THEN f ELSE f

Abs(x) == IF x < 0 THEN -x ELSE x

RECURSIVE GCD(_, _)
GCD(a, b) == IF b = 0 THEN a ELSE GCD(b, a % b)

RNorm(n, d) ==
  LET s == IF d < 0 THEN -1 ELSE 1
      g == GCD(Abs(n), Abs(d))
  IN  <<(s * n) \div g, (s * d) \div g>>

R(n) == <<n, 1>>
Q(n, d) == RNorm(n, d)
RAdd(a, b) ==
  IF a[2] = b[2] THEN RNorm(a[1] + b[1], a[2])
  ELSE LET g == GCD(a[2], b[2])
       IN  RNorm(a[1] * (b[2] \div g) + b[1] * (a[2] \div g), (a[2] \div g) * b[2])
RSub(a, b) == RAdd(a, <<-b[1], b[2]>>)
RMul(a, b) ==
  IF a[1] = 0 \/ b[1] = 0 THEN <<0, 1>>
  ELSE LET g1 == GCD(Abs(a[1]), b[2])
           g2 == GCD(Abs(b[1]), a[2])
       IN  RNorm((a[1] \div g1) * (b[1] \div g2), (a[2] \div g2) * (b[2] \div g1))
RDiv(a, b) == RMul(a, IF b[1] < 0 THEN <<-b[2], -b[1]>> ELSE <<b[2], b[1]>>)
RNeg(a) == <<-a[1], a[2]>>
RLe(a, b) ==
  LET g == GCD(a[2], b[2])
      h == IF g = 0 THEN 1 ELSE g
  IN  a[1] * (b[2] \div h) <= b[1] * (a[2] \div h)
RLt(a, b) == ~RLe(b, a)
RAbs(a) == <<Abs(a[1]), a[2]>>
RMax(a, b) == IF RLt(a, b) THEN b ELSE a
RMin(a, b) == IF RLt(b, a) THEN b ELSE a

\* pow(x, p) for the natural exponents the model uses
RECURSIVE RPow(_, _)
RPow(x, p) == IF p = 0 THEN R(1) ELSE RMul(x, RPow(x, p - 1))

\* the sum and the maximum of the cells lo..hi of an array of numbers, taken
\* pairwise; an empty range gives 0
RECURSIVE RSumRange(_, _, _)
RSumRange(f, lo, hi) ==
  IF lo > hi THEN R(0)
  ELSE IF lo = hi THEN f[lo]
  ELSE RAdd(RSumRange(f, lo, (lo + hi) \div 2), RSumRange(f, (lo + hi) \div 2 + 1, hi))

RECURSIVE RMaxRange(_, _, _)
RMaxRange(f, lo, hi) ==
  IF lo > hi THEN R(0)
  ELSE IF lo = hi THEN RMax(R(0), f[lo])
  ELSE RMax(RMaxRange(f, lo, (lo + hi) \div 2), RMaxRange(f, (lo + hi) \div 2 + 1, hi))

----------------------------------------------------------------------------
(* grids and indexing *)

min_depth == 1

_dIdx(depth) == depth - min_depth

max_depth_idx == _dIdx(max_depth)

\* periodic flat index of site (i, j, k) in an nx x ny x nz grid
H_INDEX(i, j, k, nx, ny, nz) ==
  ((i + nx) % nx) * ny * nz + ((j + ny) % ny) * nz + ((k + nz) % nz)

\* arr_t::init(nx, ny, nz) followed by the four field assignments; the
\* contents of a fresh array are whatever `fill` says
NewGrid(nx, ny, nz, fill) ==
  [nx |-> nx, ny |-> ny, nz |-> nz, pts |-> nx * ny * nz,
   arr |-> Stored([p \in 0 .. nx * ny * nz - 1 |-> fill])]

\* _zeroGrid(grid)
_zeroGrid(grid) == [grid EXCEPT !.arr = Stored([p \in DOMAIN grid.arr |-> R(0)])]

\* the site of flat index p in an nx x ny x nz grid
SiteI(p, nx, ny, nz) == p \div (ny * nz)
SiteJ(p, nx, ny, nz) == (p \div nz) % ny
SiteK(p, nx, ny, nz) == p % nz

----------------------------------------------------------------------------
(* constructor: the dimensions of every depth *)

\* the coarser dimension the constructor derives from a finer one
CoarseDimFloor(n) == n \div 2
CoarseDim(n) == n \div 2 + (n % 2)

\* nx_h[depth_idx] for every depth index, from the finest down
RECURSIVE DimAt(_, _, _)
DimAt(n_top, top_idx, depth_idx) ==
  IF depth_idx = top_idx THEN n_top
  ELSE CoarseDim(DimAt(n_top, top_idx, depth_idx + 1))

CtorDims(n_top, max_depth_in) ==
  Stored([d \in 0 .. (max_depth_in - min_depth) |->
            DimAt(n_top, max_depth_in - min_depth, d)])

----------------------------------------------------------------------------
(* transfer: restriction and prolongation *)

\* the 27-point weighted average around fine site (fi, fj, fk)
RestrictStencil(fine, fi, fj, fk, nfx, nfy, nfz) ==
  LET F(a, b, c) == fine[H_INDEX(a, b, c, nfx, nfy, nfz)]
      centre == <<F(fi, fj, fk)>>
      faces ==
        << F(fi+1, fj, fk), F(fi, fj+1, fk), F(fi, fj, fk+1),
           F(fi-1, fj, fk), F(fi, fj-1, fk), F(fi, fj, fk-1) >>
      edges ==
        << F(fi+1, fj+1, fk), F(fi+1, fj-1, fk), F(fi-1, fj+1, fk), F(fi-1, fj-1, fk),
           F(fi+1, fj, fk+1), F(fi+1, fj, fk-1), F(fi-1, fj, fk+1), F(fi-1, fj, fk-1),
           F(fi, fj+1, fk+1), F(fi, fj+1, fk-1), F(fi, fj-1, fk+1), F(fi, fj-1, fk-1) >>
      corners ==
        << F(fi+1, fj+1, fk+1), F(fi+1, fj+1, fk-1), F(fi+1, fj-1, fk+1),
           F(fi-1, fj+1, fk+1), F(fi+1, fj-1, fk-1), F(fi-1, fj+1, fk-1),
           F(fi-1, fj-1, fk+1), F(fi-1, fj-1, fk-1) >>
  IN  RSumRange(<< RMul(Q(1, 8), RSumRange(centre, 1, 1)),
                   RMul(Q(1, 16), RSumRange(faces, 1, 6)),
                   RMul(Q(1, 32), RSumRange(edges, 1, 12)),
                   RMul(Q(1, 64), RSumRange(corners, 1, 8)) >>, 1, 4)

\* the coarse dimensions the restriction loop runs over: n_fine / 2
RestrictLoopDim(n_fine) == n_fine \div 2

\* _restrictFine2coarse(grid_heirarchy, fine_depth): the loop writes the
\* cells H_INDEX(i,j,k,n_coarse_x,n_coarse_y,n_coarse_z) of the coarse array,
\* i < n_coarse_x, j < n_coarse_y, k < n_coarse_z: distinct flat indexes
\* 0 .. n_coarse_x*n_coarse_y*n_coarse_z - 1; every other cell keeps its value
_restrictFine2coarse(grid_heirarchy, fine_depth) ==
  LET fine_idx == _dIdx(fine_depth)
      coarse_idx == fine_idx - 1
      n_fine_x == grid_heirarchy[fine_idx].nx
      n_fine_y == grid_heirarchy[fine_idx].ny
      n_fine_z == grid_heirarchy[fine_idx].nz
      n_coarse_x == RestrictLoopDim(n_fine_x)
      n_coarse_y == RestrictLoopDim(n_fine_y)
      n_coarse_z == RestrictLoopDim(n_fine_z)
      fine_grid == grid_heirarchy[fine_idx].arr
      coarse_grid == grid_heirarchy[coarse_idx].arr
      written == n_coarse_x * n_coarse_y * n_coarse_z
      val(p) ==
        RestrictStencil(fine_grid,
                        2 * SiteI(p, n_coarse_x, n_coarse_y, n_coarse_z),
                        2 * SiteJ(p, n_coarse_x, n_coarse_y, n_coarse_z),
                        2 * SiteK(p, n_coarse_x, n_coarse_y, n_coarse_z),
                        n_fine_x, n_fine_y, n_fine_z)
  IN  [grid_heirarchy EXCEPT ![coarse_idx].arr =
         Stored([p \in DOMAIN coarse_grid |->
                   IF p < written THEN val(p) ELSE coarse_grid[p]])]

\* the divisor of the contribution of a coarse cell to its neighbour at
\* offset (i_adj, j_adj, k_adj)
InterpDivisor(i_adj, j_adj, k_adj) == 2 ^ (Abs(i_adj) + Abs(j_adj) + Abs(k_adj))

\* what coarse cell p adds to the flat fine location q through its offset
\* t in 0..26 (i_adj, j_adj, k_adj in -1..1)
InterpCellTo(coarse_grid, p, q, ncx, ncy, ncz, t) ==
  LET i_adj == (t \div 9) - 1
      j_adj == ((t \div 3) % 3) - 1
      k_adj == (t % 3) - 1
      fi == 2 * SiteI(p, ncx, ncy, ncz)
      fj == 2 * SiteJ(p, ncx, ncy, ncz)
      fk == 2 * SiteK(p, ncx, ncy, ncz)
      fine_grid_loc == H_INDEX(fi + i_adj, fj + j_adj, fk + k_adj,
                               ncx * 2, ncy * 2, ncz * 2)
  IN  IF fine_grid_loc = q
      THEN RDiv(coarse_grid[p], R(InterpDivisor(i_adj, j_adj, k_adj)))
      ELSE R(0)

\* what the coarse cells 0..p add to the flat fine location q: the atomic
\* additions commute, so the sum is taken over all pairs (cell, offset)
InterpTo(coarse_grid, p, q, ncx, ncy, ncz) ==
  RSumRange(Stored([s \in 0 .. 27 * (p + 1) - 1 |->
                      InterpCellTo(coarse_grid, s \div 27, q, ncx, ncy, ncz, s % 27)]),
            0, 27 * (p + 1) - 1)

\* the number of flat locations the scatter addresses: (2 n_coarse)^3 sites
InterpExtent(coarse_idx) ==
  (nx_h[coarse_idx] * 2) * (ny_h[coarse_idx] * 2) * (nz_h[coarse_idx] * 2)

\* _interpolateCoarse2fine(grid_heirarchy, coarse_depth): zero the fine array,
\* then scatter; only the locations inside the fine array are modelled here
_interpolateCoarse2fine(grid_heirarchy, coarse_depth) ==
  LET fine_idx == _dIdx(coarse_depth + 1)
      coarse_idx == _dIdx(coarse_depth)
      n_coarse_x == nx_h[coarse_idx]
      n_coarse_y == ny_h[coarse_idx]
      n_coarse_z == nz_h[coarse_idx]
      coarse_grid == grid_heirarchy[coarse_idx].arr
      fine_grid == grid_heirarchy[fine_idx].arr
  IN  [grid_heirarchy EXCEPT ![fine_idx].arr =
         Stored([q \in DOMAIN fine_grid |->
                   InterpTo(coarse_grid, n_coarse_x * n_coarse_y * n_coarse_z - 1, q,
                            n_coarse_x, n_coarse_y, n_coarse_z)])]

\* the scatter writes past the end of the fine array when it addresses more
\* locations than the array has
InterpOverruns(grid_heirarchy, coarse_depth) ==
  InterpExtent(_dIdx(coarse_depth)) > grid_heirarchy[_dIdx(coarse_depth + 1)].pts

----------------------------------------------------------------------------
(* the stencil library (utils/math.h) at STENCIL_ORDER 2, and pow *)

H_LEN_FRAC == 1
STENCIL_ORDER == 2

\* double_der_coef[STENCIL_ORDER]
double_der_coef(order) ==
  CASE order = 2 -> R(2)
    [] order = 4 -> Q(5, 2)
    [] order = 6 -> Q(49, 18)
    [] order = 8 -> Q(205, 72)

\* der_type[t][0], der_type[t][1]
der_type(t) ==
  CASE t = 0 -> <<1, 0>> [] t = 1 -> <<2, 0>> [] t = 2 -> <<3, 0>>
    [] t = 3 -> <<1, 1>> [] t = 4 -> <<2, 2>> [] t = 5 -> <<3, 3>>
    [] t = 6 -> <<1, 2>> [] t = 7 -> <<1, 3>> [] t = 8 -> <<2, 3>>

\* 1 / dx^2 with dx = H_LEN_FRAC / nx
InvDx2(nx) == Q(nx * nx, H_LEN_FRAC * H_LEN_FRAC)

\* the site (i, j, k) moved by s along axis d
Shift(site, d, s) == [site EXCEPT ![d] = @ + s]

At(arr, site, nx, ny, nz) == arr[H_INDEX(site[1], site[2], site[3], nx, ny, nz)]

derivative(i, j, k, nx, ny, nz, d, arr) ==
  LET x == <<i, j, k>>
  IN  RMul(Q(nx, 2 * H_LEN_FRAC),
           RSub(At(arr, Shift(x, d, 1), nx, ny, nz), At(arr, Shift(x, d, -1), nx, ny, nz)))

double_derivative(i, j, k, nx, ny, nz, d1, d2, arr) ==
  LET x == <<i, j, k>>
      G(s) == At(arr, s, nx, ny, nz)
  IN  IF d1 = d2
      THEN RMul(InvDx2(nx),
                RAdd(RSub(G(Shift(x, d1, 1)), RMul(R(2), G(x))), G(Shift(x, d1, -1))))
      ELSE RMul(RMul(Q(1, 4), InvDx2(nx)),
                RAdd(RSub(RSub(G(Shift(Shift(x, d1, 1), d2, 1)),
                               G(Shift(Shift(x, d1, 1), d2, -1))),
                          G(Shift(Shift(x, d1, -1), d2, 1))),
                     G(Shift(Shift(x, d1, -1), d2, -1))))

laplacian(i, j, k, nx, ny, nz, arr) ==
  RAdd(double_derivative(i, j, k, nx, ny, nz, 1, 1, arr),
       RAdd(double_derivative(i, j, k, nx, ny, nz, 2, 2, arr),
            double_derivative(i, j, k, nx, ny, nz, 3, 3, arr)))

----------------------------------------------------------------------------
(* the pointwise evaluator *)

\* an atom: type 0 constant, 1 polynomial, 2-4 first derivatives,
\* 5-10 second derivatives, anything else the laplacian
Atom(type, u_id, value) == [type |-> type, u_id |-> u_id, value |-> value]

\* the factor an atom of a kind 2.. contributes: its stencil applied to the
\* array arr, with the dimensions nx, ny, nz the call passes
StencilOf(ad, i, j, k, nx, ny, nz, arr) ==
  IF ad.type <= 4
  THEN derivative(i, j, k, nx, ny, nz, der_type(ad.type - 2)[1], arr)
  ELSE IF ad.type <= 10
  THEN double_derivative(i, j, k, nx, ny, nz,
                         der_type(ad.type - 2)[1], der_type(ad.type - 2)[2], arr)
  ELSE laplacian(i, j, k, nx, ny, nz, arr)

\* the value of atom ad of molecule (eqn_id, mol_id) at a site
AtomValue(uh, ad, eqn_id, mol_id, depth_idx, i, j, k) ==
  LET pos_idx == H_INDEX(i, j, k, nx_h[depth_idx], ny_h[depth_idx], nz_h[depth_idx])
  IN  IF ad.type = 0 THEN rho_h[eqn_id][mol_id][depth_idx].arr[pos_idx]
      ELSE LET vd == uh[ad.u_id][depth_idx]
           IN  IF ad.type = 1 THEN RPow(vd.arr[pos_idx], ad.value)
               ELSE StencilOf(ad, i, j, k, vd.nx, vd.ny, vd.nz, vd.arr)

\* val after the atoms 1..atom_id of the molecule: starts at 1.0
RECURSIVE MoleculeVal(_, _, _, _, _, _, _, _)
MoleculeVal(uh, eqn_id, mol_id, atom_id, depth_idx, i, j, k) ==
  IF atom_id = 0 THEN R(1)
  ELSE RMul(MoleculeVal(uh, eqn_id, mol_id, atom_id - 1, depth_idx, i, j, k),
            AtomValue(uh, eqns[eqn_id][mol_id].atoms[atom_id],
                      eqn_id, mol_id, depth_idx, i, j, k))

RECURSIVE EvalUpTo(_, _, _, _, _, _, _)
EvalUpTo(uh, eqn_id, mol_id, depth_idx, i, j, k) ==
  IF mol_id < 0 THEN R(0)
  ELSE RAdd(EvalUpTo(uh, eqn_id, mol_id - 1, depth_idx, i, j, k),
            MoleculeVal(uh, eqn_id, mol_id, eqns[eqn_id][mol_id].atom_n,
                        depth_idx, i, j, k))

\* _evaluateEllipticEquationPt on the approximation uh
_evaluateEllipticEquationPt(uh, eqn_id, depth_idx, i, j, k) ==
  EvalUpTo(uh, eqn_id, molecule_n[eqn_id] - 1, depth_idx, i, j, k)

\* the same at the site of flat index p
EvalAt(uh, eqn_id, depth_idx, p) ==
  _evaluateEllipticEquationPt(uh, eqn_id, depth_idx,
    SiteI(p, nx_h[depth_idx], ny_h[depth_idx], nz_h[depth_idx]),
    SiteJ(p, nx_h[depth_idx], ny_h[depth_idx], nz_h[depth_idx]),
    SiteK(p, nx_h[depth_idx], ny_h[depth_idx], nz_h[depth_idx]))

----------------------------------------------------------------------------
(* the linearization: _evaluateDerEllipticEquation *)

\* whether _evaluateDerEllipticEquation treats atom ad as depending on u_id
DerDepends(ad, eqn_id, u_id) ==
  IF ad.type <= 10 THEN u_id = ad.u_id ELSE eqn_id = ad.u_id

\* the linearization of a polynomial atom applied to jac_vd
PolyLin(ad, vd, jac_vd, pos_idx) ==
  RMul(RMul(R(ad.value), RPow(vd.arr[pos_idx], ad.value - 1)), jac_vd.arr[pos_idx])

\* the accumulators <<non_der_val, der_val>> after an atom of value a_val whose
\* linearization applied to jac_vd is a_lin
DerAccumulate(acc, a_val, a_lin) ==
  <<RMul(acc[1], a_val), RAdd(RMul(acc[1], a_lin), RMul(acc[2], a_val))>>

\* the accumulators after an atom that does not depend on u_id: both scaled
DerScale(acc, a_val) == <<RMul(acc[1], a_val), RMul(acc[2], a_val)>>

\* the linearization of atom ad (kind 1..) applied to jac_vd; the laplacian
\* passes the dimensions of vd with the array of jac_vd
AtomLin(ad, vd, jac_vd, pos_idx, i, j, k) ==
  IF ad.type = 1 THEN PolyLin(ad, vd, jac_vd, pos_idx)
  ELSE IF ad.type <= 10
  THEN StencilOf(ad, i, j, k, jac_vd.nx, jac_vd.ny, jac_vd.nz, jac_vd.arr)
  ELSE StencilOf(ad, i, j, k, vd.nx, vd.ny, vd.nz, jac_vd.arr)

\* the accumulators <<non_der_val, der_val>> after atom ad
DerStep(acc, uh, vh, ad, eqn_id, mol_id, depth_idx, i, j, k, u_id) ==
  IF ad.type = 0 \/ ~DerDepends(ad, eqn_id, u_id)
  THEN DerScale(acc, AtomValue(uh, ad, eqn_id, mol_id, depth_idx, i, j, k))
  ELSE DerAccumulate(acc, AtomValue(uh, ad, eqn_id, mol_id, depth_idx, i, j, k),
                     AtomLin(ad, uh[ad.u_id][depth_idx], vh[u_id][depth_idx],
                             H_INDEX(i, j, k, nx_h[depth_idx], ny_h[depth_idx],
                                     nz_h[depth_idx]),
                             i, j, k))

RECURSIVE DerMolecule(_, _, _, _, _, _, _, _, _, _)
DerMolecule(uh, vh, eqn_id, mol_id, atom_id, depth_idx, i, j, k, u_id) ==
  IF atom_id = 0 THEN <<R(1), R(0)>>
  ELSE DerStep(DerMolecule(uh, vh, eqn_id, mol_id, atom_id - 1, depth_idx, i, j, k, u_id),
               uh, vh, eqns[eqn_id][mol_id].atoms[atom_id],
               eqn_id, mol_id, depth_idx, i, j, k, u_id)

RECURSIVE DerUpTo(_, _, _, _, _, _, _, _, _)
DerUpTo(uh, vh, eqn_id, mol_id, depth_idx, i, j, k, u_id) ==
  IF mol_id < 0 THEN R(0)
  ELSE RAdd(DerUpTo(uh, vh, eqn_id, mol_id - 1, depth_idx, i, j, k, u_id),
            DerMolecule(uh, vh, eqn_id, mol_id, eqns[eqn_id][mol_id].atom_n,
                        depth_idx, i, j, k, u_id)[2])

\* _evaluateDerEllipticEquation on the approximation uh and the correction vh
_evaluateDerEllipticEquation(uh, vh, eqn_id, depth_idx, i, j, k, u_id) ==
  DerUpTo(uh, vh, eqn_id, molecule_n[eqn_id] - 1, depth_idx, i, j, k, u_id)

----------------------------------------------------------------------------
(* the Jacobi coefficients: _evaluateIterationForJacEquation *)

\* the accumulators <<non_der_val, der_val, mol_to_a, mol_to_b>> after an atom
\* that does not depend on u_id: all four scaled by its value
JacScale(acc, a_val) ==
  <<RMul(acc[1], a_val), RMul(acc[2], a_val), RMul(acc[3], a_val), RMul(acc[4], a_val)>>

\* the accumulators after an atom of value a_val that depends on u_id:
\*   der_val  = non_der_val * a_lin + der_val  * a_val
\*   mol_to_a = mol_to_a * a_val + non_der_val * to_a
\*   mol_to_b = mol_to_b * a_val + non_der_val * to_b
\*   non_der_val = non_der_val * a_val
JacAccumulate(acc, a_val, a_lin, to_a, to_b) ==
  <<RMul(acc[1], a_val),
    RAdd(RMul(acc[1], a_lin), RMul(acc[2], a_val)),
    RAdd(RMul(acc[3], a_val), RMul(acc[1], to_a)),
    RAdd(RMul(acc[4], a_val), RMul(acc[1], to_b))>>

\* the diagonal weight of the stencil of atom ad, over dx*dx: (ad.type <= 7) *
\* double_der_coef for a second derivative, 3.0 * double_der_coef for the laplacian
JacDiag(ad, depth_idx) ==
  IF ad.type <= 4 THEN R(0)
  ELSE IF ad.type <= 7 THEN RMul(double_der_coef(STENCIL_ORDER), InvDx2(nx_h[depth_idx]))
  ELSE IF ad.type <= 10 THEN R(0)
  ELSE RMul(RMul(R(3), double_der_coef(STENCIL_ORDER)), InvDx2(nx_h[depth_idx]))

\* what non_der_val is multiplied with in mol_to_a: nothing for a polynomial,
\* the stencil of jac_vd for a first derivative, that stencil plus the
\* diagonal weight times jac_vd[pos_idx] for the second derivatives
JacToA(ad, jac_vd, pos_idx, depth_idx, i, j, k) ==
  IF ad.type = 1 THEN R(0)
  ELSE IF ad.type <= 4
  THEN StencilOf(ad, i, j, k, jac_vd.nx, jac_vd.ny, jac_vd.nz, jac_vd.arr)
  ELSE RAdd(StencilOf(ad, i, j, k, jac_vd.nx, jac_vd.ny, jac_vd.nz, jac_vd.arr),
            RMul(JacDiag(ad, depth_idx), jac_vd.arr[pos_idx]))

\* a mol_to_b that adds the diagonal weight instead of subtracting it
JacToBAddsDiagonal(ad, vd, pos_idx, depth_idx) ==
  IF ad.type = 1 THEN RMul(R(ad.value), RPow(vd.arr[pos_idx], ad.value - 1))
  ELSE IF ad.type <= 4 THEN R(0)
  ELSE JacDiag(ad, depth_idx)

\* what non_der_val is multiplied with in mol_to_b
JacToB(ad, vd, pos_idx, depth_idx) ==
  IF ad.type = 1 THEN RMul(R(ad.value), RPow(vd.arr[pos_idx], ad.value - 1))
  ELSE IF ad.type <= 4 THEN R(0)
  ELSE RNeg(JacDiag(ad, depth_idx))

\* the accumulators <<non_der_val, der_val, mol_to_a, mol_to_b>> after atom ad
JacStep(acc, uh, vh, ad, eqn_id, mol_id, depth_idx, i, j, k, u_id) ==
  IF ad.type = 0 \/ u_id # ad.u_id
  THEN JacScale(acc, AtomValue(uh, ad, eqn_id, mol_id, depth_idx, i, j, k))
  ELSE JacAccumulate(acc, AtomValue(uh, ad, eqn_id, mol_id, depth_idx, i, j, k),
                     AtomLin(ad, uh[ad.u_id][depth_idx], vh[u_id][depth_idx],
                             H_INDEX(i, j, k, nx_h[depth_idx], ny_h[depth_idx],
                                     nz_h[depth_idx]),
                             i, j, k),
                     JacToA(ad, vh[u_id][depth_idx],
                            H_INDEX(i, j, k, nx_h[depth_idx], ny_h[depth_idx],
                                    nz_h[depth_idx]),
                            depth_idx, i, j, k),
                     JacToB(ad, uh[ad.u_id][depth_idx],
                            H_INDEX(i, j, k, nx_h[depth_idx], ny_h[depth_idx],
                                    nz_h[depth_idx]),
                            depth_idx))

RECURSIVE JacMolecule(_, _, _, _, _, _, _, _, _, _)
JacMolecule(uh, vh, eqn_id, mol_id, atom_id, depth_idx, i, j, k, u_id) ==
  IF atom_id = 0 THEN <<R(1), R(0), R(0), R(0)>>
  ELSE JacStep(JacMolecule(uh, vh, eqn_id, mol_id, atom_id - 1, depth_idx, i, j, k, u_id),
               uh, vh, eqns[eqn_id][mol_id].atoms[atom_id],
               eqn_id, mol_id, depth_idx, i, j, k, u_id)

\* coef_a += mol_to_a; coef_b += mol_to_b
JacAdd(coef, m) == <<RAdd(coef[1], m[3]), RAdd(coef[2], m[4])>>

\* <<coef_a, coef_b>> accumulated over the molecules 0..mol_id, from <<0, 0>>
RECURSIVE JacUpTo(_, _, _, _, _, _, _, _, _)
JacUpTo(uh, vh, eqn_id, mol_id, depth_idx, i, j, k, u_id) ==
  IF mol_id < 0 THEN <<R(0), R(0)>>
  ELSE JacAdd(JacUpTo(uh, vh, eqn_id, mol_id - 1, depth_idx, i, j, k, u_id),
              JacMolecule(uh, vh, eqn_id, mol_id, eqns[eqn_id][mol_id].atom_n,
                          depth_idx, i, j, k, u_id))

_evaluateIterationForJacEquation(uh, vh, eqn_id, depth_idx, i, j, k, u_id) ==
  JacUpTo(uh, vh, eqn_id, molecule_n[eqn_id] - 1, depth_idx, i, j, k, u_id)

----------------------------------------------------------------------------
(* bulk grid operations *)

Pts(depth_idx) == nx_h[depth_idx] * ny_h[depth_idx] * nz_h[depth_idx]

\* result[idx] = F(idx) over the sites of the depth; before is the array
EvaluatedArr(uh, before, eqn_id, depth_idx) ==
  Stored([p \in DOMAIN before |->
            IF p < Pts(depth_idx) THEN EvalAt(uh, eqn_id, depth_idx, p) ELSE before[p]])

\* _evaluateEllipticEquation(result_h, eqn_id, depth) on the approximation uh
_evaluateEllipticEquation(uh, result_h, eqn_id, depth) ==
  [result_h EXCEPT ![_dIdx(depth)].arr =
     EvaluatedArr(uh, result_h[_dIdx(depth)].arr, eqn_id, _dIdx(depth))]

\* residual[idx] = coarse_src[idx] - residual[idx] over the first n cells
ResidualArr(coarse_src, residual, n) ==
  Stored([p \in DOMAIN residual |->
            IF p < n THEN RSub(coarse_src[p], residual[p]) ELSE residual[p]])

\* _computeResidual(residual_h, eqn_id, depth): coarse_src - F
_computeResidual(uh, csh, residual_h, eqn_id, depth) ==
  [residual_h EXCEPT ![_dIdx(depth)].arr =
     ResidualArr(csh[eqn_id][_dIdx(depth)].arr,
                 _evaluateEllipticEquation(uh, residual_h, eqn_id, depth)[_dIdx(depth)].arr,
                 residual_h[_dIdx(depth)].nx * residual_h[_dIdx(depth)].ny
                   * residual_h[_dIdx(depth)].nz)]

\* the maximum of |coarse_src - F| over the flat indexes 0..p, from 0.0
MaxResidualTo(uh, csh, eqn_id, depth_idx, p) ==
  RMaxRange(Stored([q \in 0 .. p |->
                      RAbs(RSub(csh[eqn_id][depth_idx].arr[q],
                                EvalAt(uh, eqn_id, depth_idx, q)))]), 0, p)

_getMaxResidual(uh, csh, eqn_id, depth) ==
  MaxResidualTo(uh, csh, eqn_id, _dIdx(depth), Pts(_dIdx(depth)) - 1)

RECURSIVE MaxResidualEqs(_, _, _, _)
MaxResidualEqs(uh, csh, eqn_id, depth) ==
  IF eqn_id < 0 THEN R(0)
  ELSE RMax(MaxResidualEqs(uh, csh, eqn_id - 1, depth),
            _getMaxResidual(uh, csh, eqn_id, depth))

_getMaxResidualAllEqs(uh, csh, depth) == MaxResidualEqs(uh, csh, u_n - 1, depth)

\* _computeCoarseRestrictions(eqn_id, fine_depth), first statement: u_h[eqn_id]
\* is restricted
CoarseU(uh, eqn_id, fine_depth) ==
  [uh EXCEPT ![eqn_id] = _restrictFine2coarse(uh[eqn_id], fine_depth)]

\* second and third statement: tmp_h[eqn_id] gets the fine residual, computed
\* on the restricted u_h, and is restricted
CoarseTmp(uh, th, csh, eqn_id, fine_depth) ==
  [th EXCEPT ![eqn_id] =
     _restrictFine2coarse(_computeResidual(uh, csh, th[eqn_id], eqn_id, fine_depth),
                          fine_depth)]

\* coarse_src[idx] += tmp[idx] over the first n cells
AddedArr(coarse_src, tmp, n) ==
  Stored([p \in DOMAIN coarse_src |->
            IF p < n THEN RAdd(coarse_src[p], tmp[p]) ELSE coarse_src[p]])

\* the rest: coarse_src_h[eqn_id] gets F at the coarse depth plus the
\* restricted residual.  The coarse evaluation reads the whole current u_h, of
\* which only u_h[eqn_id] (and the variables handled before) has been restricted
CoarseSrc(uh, th, csh, eqn_id, fine_depth) ==
  [csh EXCEPT ![eqn_id][_dIdx(fine_depth - 1)].arr =
     AddedArr(_evaluateEllipticEquation(uh, csh[eqn_id], eqn_id,
                                        fine_depth - 1)[_dIdx(fine_depth - 1)].arr,
              th[eqn_id][_dIdx(fine_depth - 1)].arr,
              Pts(_dIdx(fine_depth - 1)))]

\* _changeApproximateSolutionToError(appx_to_err_h, exact_soln_h, depth)
_changeApproximateSolutionToError(appx_to_err_h, exact_soln_h, depth) ==
  LET depth_idx == _dIdx(depth)
      exact_soln == exact_soln_h[depth_idx].arr
      appx_to_err == appx_to_err_h[depth_idx].arr
  IN  [appx_to_err_h EXCEPT ![depth_idx].arr =
         Stored([p \in DOMAIN appx_to_err |->
                   IF p < Pts(depth_idx) THEN RSub(exact_soln[p], appx_to_err[p])
                   ELSE appx_to_err[p]])]

\* appx_soln[idx] += err2appx[idx] over the first n cells
CorrectedArr(appx_soln, err2appx, n) ==
  Stored([p \in DOMAIN appx_soln |->
            IF p < n THEN RAdd(appx_soln[p], err2appx[p]) ELSE appx_soln[p]])

\* err2appx[idx] = appx_val, the approximation before the correction
SavedArr(appx_soln, err2appx, n) ==
  Stored([p \in DOMAIN err2appx |-> IF p < n THEN appx_soln[p] ELSE err2appx[p]])

\* err2appx_h after the loop of _correctFineFromCoarseErr_Err2Appx, from the
\* interpolated hierarchy
SavedInto(interpolated_h, appx_soln, fine_depth_idx) ==
  [interpolated_h EXCEPT ![fine_depth_idx].arr =
     SavedArr(appx_soln, interpolated_h[fine_depth_idx].arr, Pts(fine_depth_idx))]

\* _correctFineFromCoarseErr_Err2Appx(err2appx_h, appx_soln_h, fine_depth):
\* the new appx_soln_h
CorrectedSoln(err2appx_h, appx_soln_h, fine_depth) ==
  [appx_soln_h EXCEPT ![_dIdx(fine_depth)].arr =
     CorrectedArr(appx_soln_h[_dIdx(fine_depth)].arr,
                  _interpolateCoarse2fine(err2appx_h, fine_depth - 1)[_dIdx(fine_depth)].arr,
                  Pts(_dIdx(fine_depth)))]

\* _correctFineFromCoarseErr_Err2Appx(err2appx_h, appx_soln_h, fine_depth):
\* the new err2appx_h
SavedErr(err2appx_h, appx_soln_h, fine_depth) ==
  SavedInto(_interpolateCoarse2fine(err2appx_h, fine_depth - 1),
            appx_soln_h[_dIdx(fine_depth)].arr, _dIdx(fine_depth))

\* the loop of _changeApproximateSolutionToError(tmp_h[eqn_id], u_h[eqn_id],
\* coarse_depth) over the equations
ErrorsAll(th, uh, coarse_depth) ==
  Stored([e \in DOMAIN th |->
            _changeApproximateSolutionToError(th[e], uh[e], coarse_depth)])

\* the loop of _correctFineFromCoarseErr_Err2Appx(tmp_h[eqn_id], u_h[eqn_id],
\* fine_depth) over the equations, each touching its own two hierarchies: u_h
CorrectedAll(th, uh, fine_depth) ==
  Stored([e \in DOMAIN uh |-> CorrectedSoln(th[e], uh[e], fine_depth)])

\* the same loop: tmp_h
SavedAll(th, uh, fine_depth) ==
  Stored([e \in DOMAIN th |-> SavedErr(th[e], uh[e], fine_depth)])

\* _copyGrid(from_h, to_h, eqn_id, depth): to = from, the values are copied
_copyGrid(from_h, to_h, eqn_id, depth) ==
  [to_h EXCEPT ![eqn_id][_dIdx(depth)].arr = from_h[eqn_id][_dIdx(depth)].arr]

\* _sign
_sign(x) == IF x[1] > 0 THEN 1 ELSE IF x[1] < 0 THEN -1 ELSE 0

\* _singularityExists(eqn_id, depth)
_singularityExists(uh, eqn_id, depth) ==
  LET depth_idx == _dIdx(depth)
      u == uh[eqn_id][depth_idx].arr
  IN  \E i \in 1 .. Pts(depth_idx) - 1 : _sign(u[i]) * _sign(u[0]) < 0

----------------------------------------------------------------------------
(* the smoother's pieces *)

\* 1e100, the initial norm_r: larger than every norm of the model
HUGE == <<1, 0>>

\* F_e - coarse_src_e at flat index p
ResidualAt(uh, csh, eqn_id, depth_idx, p) ==
  RSub(EvalAt(uh, eqn_id, depth_idx, p), csh[eqn_id][depth_idx].arr[p])

\* temp * temp
RSq(temp) == RMul(temp, temp)

\* the sum of (F_e - coarse_src_e)^2 over the pairs t = eqn_id * pts + p in 0..t
SquaredResidualTo(uh, csh, depth_idx, t) ==
  RSumRange(Stored([s \in 0 .. t |->
                      RSq(ResidualAt(uh, csh, s \div Pts(depth_idx), depth_idx,
                                     s % Pts(depth_idx)))]), 0, t)

\* norm: the sum over the equations 0..eqn_id and all sites
SquaredResidual(uh, csh, eqn_id, depth_idx) ==
  SquaredResidualTo(uh, csh, depth_idx, (eqn_id + 1) * Pts(depth_idx) - 1)

\* jac_rhs[idx] = -temp for every equation, at depth_idx
JacRhs(uh, csh, rhs_h, depth_idx) ==
  Stored([e \in DOMAIN rhs_h |->
            [rhs_h[e] EXCEPT ![depth_idx].arr =
               Stored([p \in DOMAIN rhs_h[e][depth_idx].arr |->
                         IF p < Pts(depth_idx)
                         THEN RNeg(ResidualAt(uh, csh, e, depth_idx, p))
                         ELSE rhs_h[e][depth_idx].arr[p]])]])

\* damping_v = 0.0 for every equation, at depth_idx
ZeroDamping(vh, depth_idx) ==
  Stored([e \in DOMAIN vh |->
            [vh[e] EXCEPT ![depth_idx].arr =
               Stored([p \in DOMAIN vh[e][depth_idx].arr |->
                         IF p < Pts(depth_idx) THEN R(0) ELSE vh[e][depth_idx].arr[p]])]])

\* the sum of _evaluateDerEllipticEquation(eqn_id, .., u_id) over the u_id in
\* 0..u_id other than skip
RECURSIVE DerSum(_, _, _, _, _, _, _, _, _)
DerSum(uh, vh, eqn_id, depth_idx, i, j, k, u_id, skip) ==
  IF u_id < 0 THEN R(0)
  ELSE RAdd(DerSum(uh, vh, eqn_id, depth_idx, i, j, k, u_id - 1, skip),
            IF u_id = skip THEN R(0)
            ELSE _evaluateDerEllipticEquation(uh, vh, eqn_id, depth_idx, i, j, k, u_id))

\* (coef_a - jac_rhs[idx] + temp) / (-coef_b)
JacobiQuotient(coef, rhs, temp) ==
  RDiv(RAdd(RSub(coef[1], rhs), temp), RNeg(coef[2]))

\* the new damping_v[idx] of equation eqn_id at flat index p
JacobiUpdate(uh, vh, rhs_h, eqn_id, depth_idx, p) ==
  LET i == SiteI(p, nx_h[depth_idx], ny_h[depth_idx], nz_h[depth_idx])
      j == SiteJ(p, nx_h[depth_idx], ny_h[depth_idx], nz_h[depth_idx])
      k == SiteK(p, nx_h[depth_idx], ny_h[depth_idx], nz_h[depth_idx])
  IN  JacobiQuotient(
        _evaluateIterationForJacEquation(uh, vh, eqn_id, depth_idx, i, j, k, eqn_id),
        rhs_h[eqn_id][depth_idx].arr[p],
        DerSum(uh, vh, eqn_id, depth_idx, i, j, k, u_n - 1, eqn_id))

\* damping_v after one in-place update, of equation eqn_id at flat index p
SweepCell(before, uh, rhs_h, eqn_id, depth_idx, p) ==
  Stored([e \in DOMAIN before |->
            IF e # eqn_id THEN before[e]
            ELSE [before[e] EXCEPT ![depth_idx].arr =
                    Stored([q \in DOMAIN before[e][depth_idx].arr |->
                              IF q = p
                              THEN JacobiUpdate(uh, before, rhs_h, eqn_id, depth_idx, p)
                              ELSE before[e][depth_idx].arr[q]])]])

\* damping_v after the in-place updates t = 0..t of one sweep, equation by
\* equation and site by site (t = eqn_id * pts + p)
RECURSIVE SweepTo(_, _, _, _, _)
SweepTo(uh, vh, rhs_h, depth_idx, t) ==
  IF t < 0 THEN vh
  ELSE SweepCell(SweepTo(uh, vh, rhs_h, depth_idx, t - 1), uh, rhs_h,
                 t \div Pts(depth_idx), depth_idx, t % Pts(depth_idx))

JacobiSweep(uh, vh, rhs_h, depth_idx) ==
  SweepTo(uh, vh, rhs_h, depth_idx, u_n * Pts(depth_idx) - 1)

\* sum_u dF_e/du_u v_u - jac_rhs_e at the pair s = eqn_id * pts + p
LinearResidualAt(uh, vh, rhs_h, depth_idx, s) ==
  LET eqn_id == s \div Pts(depth_idx)
      p == s % Pts(depth_idx)
      i == SiteI(p, nx_h[depth_idx], ny_h[depth_idx], nz_h[depth_idx])
      j == SiteJ(p, nx_h[depth_idx], ny_h[depth_idx], nz_h[depth_idx])
      k == SiteK(p, nx_h[depth_idx], ny_h[depth_idx], nz_h[depth_idx])
  IN  RSub(DerSum(uh, vh, eqn_id, depth_idx, i, j, k, u_n - 1, -1),
           rhs_h[eqn_id][depth_idx].arr[p])

\* the sum of (sum_u dF_e/du_u v_u - jac_rhs_e)^2 over the pairs
\* t = eqn_id * pts + p in 0..t
LinearResidualTo(uh, vh, rhs_h, depth_idx, t) ==
  RSumRange(Stored([s \in 0 .. t |-> RSq(LinearResidualAt(uh, vh, rhs_h, depth_idx, s))]),
            0, t)

\* norm_r: the squared norm of the linear residual, over the equations 0..eqn_id
LinearResidual(uh, vh, rhs_h, eqn_id, depth_idx) ==
  LinearResidualTo(uh, vh, rhs_h, depth_idx, (eqn_id + 1) * Pts(depth_idx) - 1)

\* the safety bound of sweeps, and the line search's number of step factors
JacobiSafetyBound == 500
LineSearchSteps == 100

\* u + c * damping_v for every equation, at depth_idx
AddDamping(uh, vh, depth_idx, c) ==
  Stored([e \in DOMAIN uh |->
            [uh[e] EXCEPT ![depth_idx].arr =
               Stored([p \in DOMAIN uh[e][depth_idx].arr |->
                         IF p < Pts(depth_idx)
                         THEN RAdd(uh[e][depth_idx].arr[p], RMul(c, vh[e][depth_idx].arr[p]))
                         ELSE uh[e][depth_idx].arr[p]])]])

\* a line search that takes every sum for zero
LineSearchSumZero(uh, csh, depth) == R(0)

\* the sum the line search compares with norm
LineSearchSum(uh, csh, depth) == SquaredResidual(uh, csh, u_n - 1, _dIdx(depth))

----------------------------------------------------------------------------
(* the equation system and its build-time API *)

\* molecule::init(atom_n_in, const_coef_in)
molecule_init(atom_n_in, const_coef_in) ==
  [atoms |-> <<>>, atom_n |-> 0, const_coef |-> const_coef_in, cap |-> atom_n_in]

\* molecule::add_atom(atom_in)
add_atom(mol, atom_in) ==
  [mol EXCEPT !.atoms = Append(mol.atoms, atom_in), !.atom_n = mol.atom_n + 1]

\* FASMultigrid::add_atom_to_eqn(atom_in, molecule_id, eqn_id) on the system eq
add_atom_to_eqn(eq, atom_in, molecule_id, eqn_id) ==
  [eq EXCEPT ![eqn_id][molecule_id] = add_atom(eq[eqn_id][molecule_id], atom_in)]

\* setPolySrcAtPt(eqn_id, mol_id, i, j, k, value) on the rho hierarchies rh
setPolySrcAtPt(rh, eqn_id, mol_id, i, j, k, value) ==
  LET idx == H_INDEX(i, j, k, nx_h[max_depth_idx], ny_h[max_depth_idx], nz_h[max_depth_idx])
  IN  [rh EXCEPT ![eqn_id][mol_id][max_depth_idx].arr[idx] = value]

\* the restrictions of one rho hierarchy, from depth down to min_depth + 1
RECURSIVE RestrictDown(_, _)
RestrictDown(h, depth) ==
  IF depth <= min_depth THEN h
  ELSE RestrictDown(_restrictFine2coarse(h, depth), depth - 1)

\* initializeRhoHeirarchy() on the rho hierarchies rh
initializeRhoHeirarchy(rh, top_depth) ==
  Stored([eqn_id \in DOMAIN rh |->
            [mol_id \in DOMAIN rh[eqn_id] |-> RestrictDown(rh[eqn_id][mol_id], top_depth)]])

----------------------------------------------------------------------------
(* construction *)

\* a hierarchy as the constructor allocates it: every array zeroed by init
NewHierarchy(nxs, nys, nzs) ==
  Stored([d \in DOMAIN nxs |-> NewGrid(nxs[d], nys[d], nzs[d], R(0))])

\* a field given by its first values and the value of every other cell, or
\* (Ramp) by a value that grows by one from cell to cell
Field(f, p) ==
  IF f[1] = "ramp" THEN RAdd(f[3], R(p))
  ELSE IF p < Len(f[2]) THEN f[2][p + 1] ELSE f[3]

\* the finest grid of a hierarchy set to the field f
WithFinest(h, f) ==
  LET top == CHOOSE d \in DOMAIN h : \A e \in DOMAIN h : e <= d
  IN  [h EXCEPT ![top].arr = Stored([p \in DOMAIN h[top].arr |-> Field(f, p)])]

\* a hierarchy whose finest grid holds the field fs[1] and every coarser grid
\* the field fs[2]
WithFields(h, fs) ==
  LET top == CHOOSE d \in DOMAIN h : \A e \in DOMAIN h : e <= d
  IN  Stored([d \in DOMAIN h |->
                [h[d] EXCEPT !.arr =
                   Stored([p \in DOMAIN h[d].arr |->
                             Field(IF d = top THEN fs[1] ELSE fs[2], p)])]])

\* the molecule init(Len(atoms), coef) followed by add_atom of every atom
RECURSIVE BuildMolecule(_, _, _)
BuildMolecule(coef, atoms, n) ==
  IF n = 0 THEN molecule_init(Len(atoms), coef)
  ELSE add_atom(BuildMolecule(coef, atoms, n - 1), atoms[n])

BuildEqns(eqs) ==
  Stored([e \in 0 .. Len(eqs) - 1 |->
            [m \in 0 .. Len(eqs[e + 1]) - 1 |->
               BuildMolecule(eqs[e + 1][m + 1][1], eqs[e + 1][m + 1][2],
                             Len(eqs[e + 1][m + 1][2]))]])

----------------------------------------------------------------------------
(* the problems the solver is run on *)

MaxCycles == 1

Const == Atom(0, 0, 0)
Poly(u_id, pw) == Atom(1, u_id, pw)
Der1(u_id, axis) == Atom(1 + axis, u_id, 0)
Der2(u_id, type) == Atom(type, u_id, 0)
Lap(u_id) == Atom(11, u_id, 0)

Cells(first, rest) == <<"cells", first, rest>>
Uniform(c) == Cells(<<>>, c)
Ramp(c) == <<"ramp", <<>>, c>>
NoRho == Uniform(R(0))

\* u^2 - 1 = 0, written u^2 + rho with rho = -1
PhiEqs == << << <<R(1), <<Poly(0, 2)>> >>, <<R(1), <<Const>> >> >> >>
PhiRho == << <<NoRho, Uniform(R(-1))>> >>

\* u0^2 - u1 = 0 and u1 - 1 = 0
CoupledEqs ==
  << << <<R(1), <<Poly(0, 2)>> >>, <<R(1), <<Const, Poly(1, 1)>> >> >>,
     << <<R(1), <<Poly(1, 1)>> >>, <<R(1), <<Const>> >> >> >>
CoupledRho == << <<NoRho, Uniform(R(-1))>>, <<NoRho, Uniform(R(-1))>> >>

\* 2 u - 2 = 0, the factor 2 given as the molecule's const_coef
ScaledEqs == << << <<R(2), <<Poly(0, 1)>> >>, <<R(1), <<Const>> >> >> >>
ScaledRho == << <<NoRho, Uniform(R(-2))>> >>

\* u^2 / 8 + rho = 0 with rho > 0 at one site: no solution there
SearchEqs == << << <<R(1), <<Const, Poly(0, 2)>> >>, <<R(1), <<Const>> >> >> >>
SearchRho == << <<Uniform(Q(1, 8)), Cells(<<Q(799, 8)>>, Q(-1, 8)) >> >>

\* u0 + u1 - 1 = 0 and u1 - u0 - 1 = 0
SkewEqs ==
  << << <<R(1), <<Poly(0, 1)>> >>, <<R(1), <<Poly(1, 1)>> >>, <<R(1), <<Const>> >> >>,
     << <<R(1), <<Poly(1, 1)>> >>, <<R(1), <<Const, Poly(0, 1)>> >>, <<R(1), <<Const>> >> >> >>
SkewRho ==
  << <<NoRho, NoRho, Uniform(R(-1))>>, <<NoRho, Uniform(R(-1)), Uniform(R(-1))>> >>

\* u = 0
LinearEqs == << << <<R(1), <<Poly(0, 1)>> >> >> >>
LinearRho == << <<NoRho>> >>

\* u + lap(u) + d_x(u) d_xx(u) + rho d_xy(u) = 0
StencilEqs ==
  << << <<R(1), <<Poly(0, 1)>> >>, <<R(1), <<Lap(0)>> >>,
        <<R(1), <<Der1(0, 1), Der2(0, 5)>> >>, <<R(3), <<Const, Der2(0, 8)>> >> >> >>
StencilRho == << <<NoRho, NoRho, NoRho, Uniform(R(2))>> >>

\* 2 u + (d_xx(u) + lap(u)) / 72 + d_x(u)^2 / 576 + rho = 0
SplitEqs ==
  << << <<R(1), <<Const, Poly(0, 1)>> >>, <<R(1), <<Const, Der2(0, 5)>> >>,
        <<R(1), <<Const, Lap(0)>> >>, <<R(1), <<Const, Der1(0, 1), Der1(0, 1)>> >>,
        <<R(1), <<Const>> >> >> >>
SplitRho ==
  << <<Uniform(R(2)), Uniform(Q(1, 72)), Uniform(Q(1, 72)), Uniform(Q(1, 576)),
       Cells(<<R(-28), R(-112)>>, R(-108))>> >>

\* u0 + u1 + u2 - 2 = 0, u1 + u2 - 1 = 0 and u0 - u1 + u2 + 2 = 0
RotorEqs ==
  << << <<R(1), <<Poly(0, 1)>> >>, <<R(1), <<Poly(1, 1)>> >>, <<R(1), <<Poly(2, 1)>> >>,
        <<R(1), <<Const>> >> >>,
     << <<R(1), <<Poly(1, 1)>> >>, <<R(1), <<Poly(2, 1)>> >>, <<R(1), <<Const>> >> >>,
     << <<R(1), <<Poly(0, 1)>> >>, <<R(1), <<Const, Poly(1, 1)>> >>,
        <<R(1), <<Poly(2, 1)>> >>, <<R(1), <<Const>> >> >> >>
RotorRho ==
  << <<NoRho, NoRho, NoRho, Uniform(R(-2))>>,
     <<NoRho, NoRho, Uniform(R(-1))>>,
     <<NoRho, Uniform(R(-1)), NoRho, Uniform(R(2))>> >>

\* u0 + lap(u1) = 0 and lap(u1) = 0
LaplaceEqs ==
  << << <<R(1), <<Poly(0, 1)>> >>, <<R(1), <<Lap(1)>> >> >>,
     << <<R(1), <<Lap(1)>> >> >> >>
LaplaceRho == << <<NoRho, NoRho>>, <<NoRho>> >>

\* a problem on an nx x ny x nz grid; tmp is the content of the scratch
\* hierarchy: <<field of the finest grid, field of every coarser grid>>
ProblemOn(nx, ny, nz, depth, eqs, rho, u0, tmp, tol, iters) ==
  [nx |-> nx, ny |-> ny, nz |-> nz, depth |-> depth, eqs |-> eqs, rho |-> rho,
   u0 |-> u0, tmp |-> tmp, tol |-> tol, iters |-> iters]

\* a problem on a cubic grid, the scratch hierarchy as the constructor leaves it
Problem(n, depth, eqs, rho, u0, tol, iters) ==
  ProblemOn(n, n, n, depth, eqs, rho, u0, <<Uniform(R(0)), Uniform(R(0))>>, tol, iters)

Problems ==
  { Problem(2, 2, PhiEqs, PhiRho, <<Uniform(R(1))>>, Q(1, 10), 2),
    Problem(2, 2, PhiEqs, PhiRho, <<Uniform(R(2))>>, Q(1, 10), 2),
    Problem(2, 1, PhiEqs, PhiRho, <<Uniform(R(1))>>, Q(1, 10), 2),
    Problem(4, 3, PhiEqs, PhiRho, <<Uniform(R(1))>>, Q(1, 10), 2),
    Problem(2, 2, CoupledEqs, CoupledRho, <<Uniform(R(1)), Uniform(R(1))>>, Q(1, 2), 2),
    Problem(2, 2, ScaledEqs, ScaledRho, <<Uniform(R(1))>>, Q(1, 10), 2),
    Problem(2, 2, SearchEqs, SearchRho, <<Uniform(R(1))>>, Q(1, 10), 2),
    Problem(1, 1, SkewEqs, SkewRho, <<Uniform(R(0)), Uniform(R(0))>>, Q(1, 10), 2),
    Problem(2, 2, LinearEqs, LinearRho, <<Cells(<<R(0), R(1), R(-1)>>, R(1))>>, R(5), 2),
    Problem(2, 2, LinearEqs, LinearRho, <<Cells(<<R(1), R(-1)>>, R(1))>>, R(5), 2),
    Problem(2, 2, LinearEqs, LinearRho, <<Cells(<<R(0), R(1)>>, R(1))>>, R(5), 2),
    Problem(2, 2, LinearEqs, LinearRho, <<Cells(<<R(0), R(0), R(-1)>>, R(-1))>>, R(5), 2),
    Problem(2, 2, LinearEqs, LinearRho, <<Uniform(R(0))>>, R(5), 2),
    Problem(2, 2, StencilEqs, StencilRho, <<Cells(<<R(0), R(1), R(2), R(-1)>>, R(1))>>,
            R(1000), 2),
    ProblemOn(2, 1, 1, 1, LaplaceEqs, LaplaceRho,
              <<Cells(<<R(17)>>, R(2)), Cells(<<R(1)>>, R(0))>>,
              <<Uniform(R(0)), Uniform(R(0))>>, R(10), 1),
    Problem(1, 1, PhiEqs, PhiRho, <<Uniform(R(1))>>, R(0), 1),
    ProblemOn(1, 1, 1, 1, RotorEqs, RotorRho,
              <<Uniform(R(0)), Uniform(R(0)), Uniform(R(0))>>,
              <<Uniform(R(0)), Uniform(R(0)), Uniform(R(0))>>, Q(1, 10), 1),
    ProblemOn(3, 1, 1, 1, SplitEqs, SplitRho, <<Cells(<<R(0), R(32)>>, R(64))>>,
              <<Uniform(R(0)), Uniform(R(0))>>, R(32), 1),
    \* u^2 + 1 = 0 from u = 1/2: the full Newton step overshoots
    Problem(1, 1, PhiEqs, << <<NoRho, Uniform(R(1))>> >>, <<Uniform(Q(1, 2))>>,
            Q(1, 10), 1) }

----------------------------------------------------------------------------
(* the state after construction and build *)

Loc0 ==
  [call |-> "none", num_cycles |-> 0, cycle |-> 0, stage |-> "none",
   eqn_id |-> 0, depth |-> 0, coarse_depth |-> 0,
   rdepth |-> 0, max_iterations |-> 0, s |-> 0,
   norm |-> R(0), cnt |-> 0, norm_r |-> R(0), norm_pre |-> R(0), ls |-> 0,
   fi |-> 0, fj |-> 0, fk |-> 0, thread |-> <<>>]

Out0 ==
  [warned |-> <<>>, u_in |-> <<>>, exact_in |-> FALSE, jac_failed |-> 0,
   ls_failed |-> FALSE, overrun |-> FALSE, last |-> <<"none", 0>>, before |-> <<>>,
   value |-> R(0)]

\* the solver constructed for problem P, its equation system being eq
ConstructedWith(P, eq) ==
  /\ NX = P.nx /\ NY = P.ny /\ NZ = P.nz
  /\ u_n = Len(P.eqs)
  /\ molecule_n = [e \in 0 .. Len(P.eqs) - 1 |-> Len(P.eqs[e + 1])]
  /\ max_depth = P.depth
  /\ max_relax_iters = P.iters
  /\ relaxation_tolerance = P.tol
  /\ relax_scheme = "inexact_newton"
  /\ nx_h = CtorDims(NX, max_depth)
  /\ ny_h = CtorDims(NY, max_depth)
  /\ nz_h = CtorDims(NZ, max_depth)
  /\ eqns = eq
  /\ u_h = [e \in 0 .. u_n - 1 |-> WithFinest(NewHierarchy(nx_h, ny_h, nz_h), P.u0[e + 1])]
  /\ tmp_h = [e \in 0 .. u_n - 1 |-> WithFields(NewHierarchy(nx_h, ny_h, nz_h), P.tmp)]
  /\ coarse_src_h = [e \in 0 .. u_n - 1 |-> NewHierarchy(nx_h, ny_h, nz_h)]
  /\ jac_rhs_h = [e \in 0 .. u_n - 1 |-> NewHierarchy(nx_h, ny_h, nz_h)]
  /\ damping_v_h = [e \in 0 .. u_n - 1 |-> NewHierarchy(nx_h, ny_h, nz_h)]
  /\ rho_h = initializeRhoHeirarchy(
               [e \in 0 .. u_n - 1 |->
                  [m \in 0 .. molecule_n[e] - 1 |->
                     WithFinest(NewHierarchy(nx_h, ny_h, nz_h), P.rho[e + 1][m + 1])]],
               max_depth)

Init ==
  /\ \E P \in Problems : ConstructedWith(P, BuildEqns(P.eqs))
  /\ pc = "idle"
  /\ loc = Loc0
  /\ log = <<>>
  /\ out = Out0

----------------------------------------------------------------------------
(* VCycle() and VCycles(num_cycles), step by step *)

\* the iterations of the finalization smooth of VCycles
FinalRelaxIters == 10

\* what _relaxSolution_GaussSeidel does with _jacobianRelax's return value
AfterJacobianThrows(ok) == IF ok THEN "lambda" ELSE "thrown"
AfterJacobian(ok) == IF ok THEN "lambda" ELSE "returned"

\* what _relaxSolution_GaussSeidel does with _getLambda's return value
AfterLambdaBreaks(ok) == IF ok THEN "relax" ELSE "returned"
AfterLambda(ok) == IF ok THEN "relax" ELSE "thrown"

\* the first depth of the upward stroke
AscentFirstSkipsCoarsest == min_depth + 1
AscentFirst == min_depth

\* the finest approximation solves the system: F_e = 0 at every finest site
\* for every equation, with a zero source at max_depth
ExactSolution(uh, csh) ==
  \A e \in 0 .. u_n - 1 : \A p \in 0 .. Pts(max_depth_idx) - 1 :
    /\ EvalAt(uh, e, max_depth_idx, p) = R(0)
    /\ csh[e][max_depth_idx].arr[p] = R(0)

\* entering _relaxSolution_GaussSeidel(depth, max_iterations)
EnterSmoother(stage, depth, max_iterations) ==
  /\ pc' = "relax"
  /\ loc' = [loc EXCEPT !.stage = stage, !.rdepth = depth,
                        !.max_iterations = max_iterations, !.s = 0]
  /\ log' = Append(log, <<"smooth", depth, 0>>)

\* the caller sets the public member relax_scheme to newton before the solve
\* (inexact_newton_constrained takes the branch of inexact_newton everywhere)
SetRelaxScheme ==
  /\ pc = "idle"
  /\ relax_scheme = "inexact_newton"
  /\ relax_scheme' = "newton"
  /\ UNCHANGED <<NX, NY, NZ, u_n, molecule_n, max_depth, max_relax_iters,
                 relaxation_tolerance, nx_h, ny_h, nz_h, eqns, gridvars, pc, loc, log, out>>

\* the caller runs VCycle()
CallVCycle ==
  /\ pc = "idle"
  /\ pc' = "relax"
  /\ loc' = [loc EXCEPT !.call = "VCycle", !.stage = "pre", !.rdepth = max_depth,
                        !.max_iterations = max_relax_iters, !.s = 0]
  /\ log' = Append(log, <<"smooth", max_depth, 0>>)
  /\ out' = [out EXCEPT !.u_in = [e \in 0 .. u_n - 1 |-> u_h[e][max_depth_idx].arr],
                        !.exact_in = ExactSolution(u_h, coarse_src_h)]
  /\ UNCHANGED <<cfgvars, eqns, gridvars>>

\* the caller runs VCycles(num_cycles)
CallVCycles ==
  /\ pc = "idle"
  /\ \E num_cycles \in 0 .. MaxCycles :
       loc' = [loc EXCEPT !.call = "VCycles", !.num_cycles = num_cycles, !.cycle = 0]
  /\ pc' = "cycles"
  /\ out' = [out EXCEPT !.u_in = [e \in 0 .. u_n - 1 |-> u_h[e][max_depth_idx].arr],
                        !.exact_in = ExactSolution(u_h, coarse_src_h)]
  /\ UNCHANGED <<cfgvars, eqns, gridvars, log>>

\* the loop of VCycles: another VCycle(), or the finalization smooth
CyclesLoop ==
  /\ pc = "cycles"
  /\ IF loc.cycle < loc.num_cycles
     THEN EnterSmoother("pre", max_depth, max_relax_iters)
     ELSE EnterSmoother("final", max_depth, FinalRelaxIters)
  /\ UNCHANGED <<cfgvars, eqns, gridvars, out>>

\* the head of the smoother's loop: leave when the iterations are used up or
\* the maximal residual is below the tolerance; else compute norm and jac_rhs
\* and enter _jacobianRelax (damping_v zeroed, cnt = 0, norm_r = 1e100)
RelaxIterate ==
  /\ pc = "relax"
  /\ LET depth_idx == _dIdx(loc.rdepth)
     IN  IF loc.s >= loc.max_iterations
            \/ RLt(_getMaxResidualAllEqs(u_h, coarse_src_h, loc.rdepth), relaxation_tolerance)
         THEN /\ pc' = "returned"
              /\ UNCHANGED <<loc, jac_rhs_h, damping_v_h>>
         ELSE IF relax_scheme \in {"inexact_newton", "inexact_newton_constrained"}
         THEN /\ pc' = "jacobi"
              /\ jac_rhs_h' = JacRhs(u_h, coarse_src_h, jac_rhs_h, depth_idx)
              /\ damping_v_h' = ZeroDamping(damping_v_h, depth_idx)
              /\ loc' = [loc EXCEPT !.norm = SquaredResidual(u_h, coarse_src_h, u_n - 1, depth_idx),
                                    !.cnt = 0, !.norm_r = HUGE, !.norm_pre = R(0)]
         ELSE /\ pc' = "relax"
              /\ loc' = [loc EXCEPT !.s = @ + 1]
              /\ UNCHANGED <<jac_rhs_h, damping_v_h>>
  /\ UNCHANGED <<cfgvars, eqns, u_h, tmp_h, coarse_src_h, rho_h, log, out>>

\* the condition of _jacobianRelax's while loop, with C = 1 and p = 0
JacobiContinues == ~RLt(loc.norm_r, RMin(RMul(RPow(loc.norm, 0 + 1), R(1)), loc.norm))

\* cnt++, not counting past the safety bound, where its value no longer matters
NextCnt(cnt) == IF cnt > JacobiSafetyBound THEN cnt ELSE cnt + 1

\* one pass of the while loop of _jacobianRelax: a sweep, the linear residual
\* norm, cnt++ and the bail-out test cnt > 500 && norm_r > norm_pre
JacobiSweepStep ==
  /\ pc = "jacobi"
  /\ JacobiContinues
  /\ damping_v_h' = JacobiSweep(u_h, damping_v_h, jac_rhs_h, _dIdx(loc.rdepth))
  /\ loc' = [loc EXCEPT !.norm_r = LinearResidual(u_h, damping_v_h', jac_rhs_h, u_n - 1,
                                                  _dIdx(loc.rdepth)),
                        !.norm_pre = R(0),
                        !.cnt = NextCnt(loc.cnt)]
  /\ IF loc'.cnt > JacobiSafetyBound /\ RLt(loc'.norm_pre, loc'.norm_r)
     THEN /\ pc' = AfterJacobian(FALSE)
          /\ out' = [out EXCEPT !.jac_failed = @ + 1]
     ELSE /\ pc' = "jacobi"
          /\ out' = out
  /\ UNCHANGED <<cfgvars, eqns, u_h, tmp_h, coarse_src_h, jac_rhs_h, rho_h, log>>

\* _jacobianRelax returns true
JacobiConverged ==
  /\ pc = "jacobi"
  /\ ~JacobiContinues
  /\ pc' = AfterJacobian(TRUE)
  /\ UNCHANGED <<cfgvars, eqns, gridvars, loc, log, out>>

\* a line search that starts from u + 0.5 * damping_v
GetLambdaHalfStep ==
  /\ pc = "lambda"
  /\ u_h' = AddDamping(u_h, damping_v_h, _dIdx(loc.rdepth), Q(1, 2))
  /\ loc' = [loc EXCEPT !.ls = 0]
  /\ out' = [out EXCEPT !.before = u_h]
  /\ pc' = "search"
  /\ UNCHANGED <<cfgvars, eqns, tmp_h, coarse_src_h, jac_rhs_h, damping_v_h, rho_h, log>>

\* the head of _getLambda: u += 1.0 * damping_v for every equation; out.before
\* keeps the pre-step u
GetLambda ==
  /\ pc = "lambda"
  /\ u_h' = AddDamping(u_h, damping_v_h, _dIdx(loc.rdepth), R(1))
  /\ loc' = [loc EXCEPT !.ls = 0]
  /\ out' = [out EXCEPT !.before = u_h]
  /\ pc' = "search"
  /\ UNCHANGED <<cfgvars, eqns, tmp_h, coarse_src_h, jac_rhs_h, damping_v_h, rho_h, log>>

\* one pass of the for loop of _getLambda, and what the smoother does with
\* the return value: return 1 when sum <= norm (the next smoother iteration),
\* else u -= 0.01 * damping_v; return 0 after the last pass (throw -1)
LineSearchStep ==
  /\ pc = "search"
  /\ IF loc.ls >= LineSearchSteps
     THEN /\ pc' = AfterLambda(FALSE)
          /\ out' = [out EXCEPT !.ls_failed = TRUE]
          /\ UNCHANGED <<u_h, loc>>
     ELSE IF RLe(LineSearchSum(u_h, coarse_src_h, loc.rdepth), loc.norm)
     THEN /\ pc' = AfterLambda(TRUE)
          /\ loc' = [loc EXCEPT !.s = @ + 1]
          /\ UNCHANGED <<u_h, out>>
     ELSE /\ pc' = "search"
          /\ u_h' = AddDamping(u_h, damping_v_h, _dIdx(loc.rdepth), Q(-1, 100))
          /\ loc' = [loc EXCEPT !.ls = @ + 1]
          /\ UNCHANGED out
  /\ UNCHANGED <<cfgvars, eqns, tmp_h, coarse_src_h, jac_rhs_h, damping_v_h, rho_h, log>>

\* after the pre-smooth: the descent starts with equation 0 at max_depth
StartDescent ==
  /\ pc = "returned"
  /\ loc.stage = "pre"
  /\ pc' = "descent"
  /\ loc' = [loc EXCEPT !.eqn_id = 0, !.depth = max_depth]
  /\ UNCHANGED <<cfgvars, eqns, gridvars, log, out>>

\* one pass of the inner descent loop: _computeCoarseRestrictions(eqn_id, depth)
ComputeCoarseRestrictions ==
  /\ pc = "descent"
  /\ loc.eqn_id < u_n
  /\ min_depth < loc.depth
  /\ u_h' = CoarseU(u_h, loc.eqn_id, loc.depth)
  /\ tmp_h' = CoarseTmp(u_h', tmp_h, coarse_src_h, loc.eqn_id, loc.depth)
  /\ coarse_src_h' = CoarseSrc(u_h', tmp_h', coarse_src_h, loc.eqn_id, loc.depth)
  /\ loc' = [loc EXCEPT !.depth = @ - 1]
  /\ log' = Append(log, <<"restrict", loc.eqn_id, loc.depth>>)
  /\ pc' = "descent"
  /\ UNCHANGED <<cfgvars, eqns, jac_rhs_h, damping_v_h, rho_h, out>>

\* the end of the inner descent loop: _copyGrid(u_h, tmp_h, eqn_id, min_depth),
\* then the next equation
CopyGrid ==
  /\ pc = "descent"
  /\ loc.eqn_id < u_n
  /\ ~(min_depth < loc.depth)
  /\ tmp_h' = _copyGrid(u_h, tmp_h, loc.eqn_id, min_depth)
  /\ loc' = [loc EXCEPT !.eqn_id = @ + 1, !.depth = max_depth]
  /\ log' = Append(log, <<"copy", loc.eqn_id, 0>>)
  /\ pc' = "descent"
  /\ UNCHANGED <<cfgvars, eqns, u_h, coarse_src_h, jac_rhs_h, damping_v_h, rho_h, out>>

\* the end of the descent: the upward stroke starts at the coarsest depth
StartAscent ==
  /\ pc = "descent"
  /\ ~(loc.eqn_id < u_n)
  /\ pc' = "ascent"
  /\ loc' = [loc EXCEPT !.coarse_depth = AscentFirst]
  /\ UNCHANGED <<cfgvars, eqns, gridvars, log, out>>

\* the head of the upward loop: smooth at coarse_depth, or the post-smooth
AscentLoop ==
  /\ pc = "ascent"
  /\ IF loc.coarse_depth < max_depth
     THEN EnterSmoother("up", loc.coarse_depth, max_relax_iters)
     ELSE EnterSmoother("post", max_depth, max_relax_iters)
  /\ UNCHANGED <<cfgvars, eqns, gridvars, out>>

\* some prolongation of the stroke writes past the end of its fine array
OverrunsAny(th, coarse_depth) ==
  \E e \in DOMAIN th : InterpOverruns(th[e], coarse_depth)

\* after a smooth of the upward stroke: tmp becomes the error, the error is
\* prolonged and added to the finer approximation
Correct ==
  /\ pc = "returned"
  /\ loc.stage = "up"
  /\ u_h' = CorrectedAll(ErrorsAll(tmp_h, u_h, loc.coarse_depth), u_h, loc.coarse_depth + 1)
  /\ tmp_h' = SavedAll(ErrorsAll(tmp_h, u_h, loc.coarse_depth), u_h, loc.coarse_depth + 1)
  /\ out' = [out EXCEPT !.overrun = @ \/ OverrunsAny(tmp_h, loc.coarse_depth)]
  /\ loc' = [loc EXCEPT !.coarse_depth = @ + 1]
  /\ log' = Append(log, <<"correct", loc.coarse_depth, 0>>)
  /\ pc' = "ascent"
  /\ UNCHANGED <<cfgvars, eqns, coarse_src_h, jac_rhs_h, damping_v_h, rho_h>>

\* after the post-smooth VCycle() returns: to its caller, or into VCycles' loop
VCycleReturns ==
  /\ pc = "returned"
  /\ loc.stage = "post"
  /\ IF loc.call = "VCycle"
     THEN pc' = "done" /\ loc' = loc
     ELSE pc' = "cycles" /\ loc' = [loc EXCEPT !.cycle = @ + 1]
  /\ UNCHANGED <<cfgvars, eqns, gridvars, log, out>>

\* after the finalization smooth: the summary, with the singularity warnings
Summary ==
  /\ pc = "returned"
  /\ loc.stage = "final"
  /\ out' = [out EXCEPT !.warned =
               [e \in 0 .. u_n - 1 |-> _singularityExists(u_h, e, max_depth)]]
  /\ log' = Append(log, <<"summary", 0, 0>>)
  /\ pc' = "done"
  /\ UNCHANGED <<cfgvars, eqns, gridvars, loc>>

Next ==
  \/ SetRelaxScheme
  \/ CallVCycle
  \/ CallVCycles
  \/ CyclesLoop
  \/ RelaxIterate
  \/ JacobiSweepStep
  \/ JacobiConverged
  \/ GetLambda
  \/ LineSearchStep
  \/ StartDescent
  \/ ComputeCoarseRestrictions
  \/ CopyGrid
  \/ StartAscent
  \/ AscentLoop
  \/ Correct
  \/ VCycleReturns
  \/ Summary

Spec == Init /\ [][Next]_vars

----------------------------------------------------------------------------
(* properties of the evaluator and of the solver run *)

\* the sum over the molecules 0..mol_id of const_coef times the product of
\* the molecule's atom values
RECURSIVE ScaledSumUpTo(_, _, _, _, _)
ScaledSumUpTo(uh, eqn_id, mol_id, depth_idx, p) ==
  IF mol_id < 0 THEN R(0)
  ELSE RAdd(ScaledSumUpTo(uh, eqn_id, mol_id - 1, depth_idx, p),
            RMul(eqns[eqn_id][mol_id].const_coef,
                 MoleculeVal(uh, eqn_id, mol_id, eqns[eqn_id][mol_id].atom_n, depth_idx,
                             SiteI(p, nx_h[depth_idx], ny_h[depth_idx], nz_h[depth_idx]),
                             SiteJ(p, nx_h[depth_idx], ny_h[depth_idx], nz_h[depth_idx]),
                             SiteK(p, nx_h[depth_idx], ny_h[depth_idx], nz_h[depth_idx]))))

\* C1: for every equation, depth and site, _evaluateEllipticEquationPt returns
\* the sum over the molecules of const_coef times the product of the atom values
C1_EvaluatorScalesByConstCoef ==
  \A e \in 0 .. u_n - 1 : \A d \in 0 .. max_depth_idx : \A p \in 0 .. Pts(d) - 1 :
    EvalAt(u_h, e, d, p) = ScaledSumUpTo(u_h, e, molecule_n[e] - 1, d, p)

\* C2: a single VCycle() started from an exact solution, with a positive
\* tolerance, returns with every finest u grid as it was
C2_VCycleKeepsExactSolution ==
  (pc = "done" /\ loc.call = "VCycle" /\ out.exact_in /\ RLt(R(0), relaxation_tolerance))
    => \A e \in 0 .. u_n - 1 : u_h[e][max_depth_idx].arr = out.u_in[e]

\* C3: a failed line search ends the call with an error outcome: the step in
\* which the search fails ends in the thrown state, and no step of the call
\* (smoothing, restriction, prolongation, summary) is taken once it has failed
C3_LineSearchFailureIsFatal ==
  [][ /\ ~out.ls_failed
      /\ pc # "thrown"
      /\ (out'.ls_failed => pc' = "thrown") ]_vars

C3_Witness == pc = "thrown" /\ out.ls_failed /\ loc.ls = LineSearchSteps

\* C4: a Jacobian inner solve that reports non-convergence makes the smoother
\* return without an error; u is not touched between the head of that outer
\* iteration and the report; and the step after a return of the smoother is
\* the caller's next one (descent, correction and ascent, return, summary)
C4_JacobianFailureIsNotFatal ==
  [][ /\ (out'.jac_failed # out.jac_failed => pc' = "returned")
      /\ (pc \in {"relax", "jacobi"} => u_h' = u_h)
      /\ (pc = "returned" => pc' \in {"descent", "ascent", "cycles", "done"}) ]_vars

C4_Witness == pc = "done" /\ out.jac_failed > 0 /\ ~out.ls_failed

\* the events of the descent of equation eqn_id from depth down to min_depth:
\* one restriction per depth above min_depth, then the copy
RECURSIVE DescentEvents(_, _)
DescentEvents(eqn_id, depth) ==
  IF depth <= min_depth THEN << <<"copy", eqn_id, 0>> >>
  ELSE << <<"restrict", eqn_id, depth>> >> \o DescentEvents(eqn_id, depth - 1)

\* the descents of the equations eqn_id .. u_n - 1, one after the other
RECURSIVE DescentsFrom(_)
DescentsFrom(eqn_id) ==
  IF eqn_id >= u_n THEN <<>>
  ELSE DescentEvents(eqn_id, max_depth) \o DescentsFrom(eqn_id + 1)

\* the upward stroke from depth: a smooth and a correction per depth below max_depth
RECURSIVE AscentEvents(_)
AscentEvents(depth) ==
  IF depth >= max_depth THEN <<>>
  ELSE << <<"smooth", depth, 0>>, <<"correct", depth, 0>> >> \o AscentEvents(depth + 1)

\* what one VCycle() does: the pre-smooth at max_depth, the descent without a
\* smooth, the smooths at min_depth .. max_depth - 1, the post-smooth at max_depth
CycleEvents ==
  << <<"smooth", max_depth, 0>> >> \o DescentsFrom(0) \o AscentEvents(min_depth)
    \o << <<"smooth", max_depth, 0>> >>

RECURSIVE CyclesEvents(_)
CyclesEvents(n) == IF n = 0 THEN <<>> ELSE CycleEvents \o CyclesEvents(n - 1)

\* what the running call does in all
ExpectedEvents ==
  IF loc.call = "VCycle" THEN CycleEvents
  ELSE IF loc.call = "VCycles"
  THEN CyclesEvents(loc.num_cycles) \o << <<"smooth", max_depth, 0>>, <<"summary", 0, 0>> >>
  ELSE <<>>

\* C9: the smooths, restrictions and corrections of a call happen in the order
\* pre-smooth at max_depth, descent, smooths at min_depth .. max_depth - 1,
\* post-smooth at max_depth; VCycles(n) does n such cycles, one more smooth at
\* max_depth and the summary: at every moment the events so far are the first
\* of that sequence, and a call that has returned has done all of them
C9_SmootherOrder ==
  /\ Len(log) <= Len(ExpectedEvents)
  /\ log = SubSeq(ExpectedEvents, 1, Len(log))
  /\ (pc = "done" => log = ExpectedEvents)

C9_Witness ==
  /\ pc = "done"
  /\ loc.call = "VCycles"
  /\ loc.num_cycles >= 1
  /\ max_depth >= 3
  /\ u_n = 1

\* the product of the values of the atoms 1..atom_id of a molecule other than
\* the atom skip
RECURSIVE ProductExcept(_, _, _, _, _, _, _, _, _)
ProductExcept(uh, eqn_id, mol_id, atom_id, skip, depth_idx, i, j, k) ==
  IF atom_id = 0 THEN R(1)
  ELSE RMul(ProductExcept(uh, eqn_id, mol_id, atom_id - 1, skip, depth_idx, i, j, k),
            IF atom_id = skip THEN R(1)
            ELSE AtomValue(uh, eqns[eqn_id][mol_id].atoms[atom_id], eqn_id, mol_id,
                           depth_idx, i, j, k))

\* the product rule: the sum, over the atoms of the molecules of equation
\* eqn_id that name variable u_id, of the atom's linearization applied to
\* damping_v[u_id] times the values of the molecule's other atoms
ProductRule(uh, vh, eqn_id, depth_idx, i, j, k, u_id) ==
  LET pos_idx == H_INDEX(i, j, k, nx_h[depth_idx], ny_h[depth_idx], nz_h[depth_idx])
      term(m, a) ==
        IF eqns[eqn_id][m].atoms[a].type # 0 /\ eqns[eqn_id][m].atoms[a].u_id = u_id
        THEN RMul(AtomLin(eqns[eqn_id][m].atoms[a], uh[u_id][depth_idx],
                          vh[u_id][depth_idx], pos_idx, i, j, k),
                  ProductExcept(uh, eqn_id, m, eqns[eqn_id][m].atom_n, a,
                                depth_idx, i, j, k))
        ELSE R(0)
      mol(m) == RSumRange([a \in 1 .. eqns[eqn_id][m].atom_n |-> term(m, a)],
                          1, eqns[eqn_id][m].atom_n)
  IN  RSumRange([m \in 0 .. molecule_n[eqn_id] - 1 |-> mol(m)],
                0, molecule_n[eqn_id] - 1)

\* C13: _evaluateDerEllipticEquation(eqn_id, ..., u_id) linearizes exactly the
\* atoms with atom.u_id = u_id, whatever their type and whatever eqn_id is
C13_DerDependsOnAtomVariable ==
  \A eqn_id \in 0 .. u_n - 1, u_id \in 0 .. u_n - 1 :
    \A depth_idx \in 0 .. max_depth_idx : \A p \in 0 .. Pts(depth_idx) - 1 :
      LET i == SiteI(p, nx_h[depth_idx], ny_h[depth_idx], nz_h[depth_idx])
          j == SiteJ(p, nx_h[depth_idx], ny_h[depth_idx], nz_h[depth_idx])
          k == SiteK(p, nx_h[depth_idx], ny_h[depth_idx], nz_h[depth_idx])
      IN  _evaluateDerEllipticEquation(u_h, damping_v_h, eqn_id, depth_idx, i, j, k, u_id)
            = ProductRule(u_h, damping_v_h, eqn_id, depth_idx, i, j, k, u_id)

\* the same statement for the equations that hold no laplacian atom
C13_WithoutLaplacian ==
  \A eqn_id \in 0 .. u_n - 1, u_id \in 0 .. u_n - 1 :
    (\A m \in 0 .. molecule_n[eqn_id] - 1 : \A a \in 1 .. eqns[eqn_id][m].atom_n :
       eqns[eqn_id][m].atoms[a].type # 11)
    => \A depth_idx \in 0 .. max_depth_idx : \A p \in 0 .. Pts(depth_idx) - 1 :
         LET i == SiteI(p, nx_h[depth_idx], ny_h[depth_idx], nz_h[depth_idx])
             j == SiteJ(p, nx_h[depth_idx], ny_h[depth_idx], nz_h[depth_idx])
             k == SiteK(p, nx_h[depth_idx], ny_h[depth_idx], nz_h[depth_idx])
         IN  _evaluateDerEllipticEquation(u_h, damping_v_h, eqn_id, depth_idx, i, j, k, u_id)
               = ProductRule(u_h, damping_v_h, eqn_id, depth_idx, i, j, k, u_id)

\* u_h with the first n variables restricted from fine_depth
RECURSIVE RestrictAll(_, _, _)
RestrictAll(uh, n, fine_depth) ==
  IF n = 0 THEN uh ELSE CoarseU(RestrictAll(uh, n - 1, fine_depth), n - 1, fine_depth)

\* F_e(U) + R(coarse_src_e[d] - F_e(u[d])) at every cell of depth d - 1
TauCorrected(U, res, eqn_id, coarse_idx) ==
  [p \in 0 .. Pts(coarse_idx) - 1 |->
     RAdd(_evaluateEllipticEquationPt(U, eqn_id, coarse_idx,
            SiteI(p, nx_h[coarse_idx], ny_h[coarse_idx], nz_h[coarse_idx]),
            SiteJ(p, nx_h[coarse_idx], ny_h[coarse_idx], nz_h[coarse_idx]),
            SiteK(p, nx_h[coarse_idx], ny_h[coarse_idx], nz_h[coarse_idx])),
          res[p])]

\* the coarse source a descent step must leave for equation loc.eqn_id
DescentSource ==
  TauCorrected(RestrictAll(u_h, u_n, loc.depth),
               _restrictFine2coarse(
                 _computeResidual(u_h, coarse_src_h, tmp_h[loc.eqn_id], loc.eqn_id,
                                  loc.depth), loc.depth)[_dIdx(loc.depth - 1)].arr,
               loc.eqn_id, _dIdx(loc.depth - 1))

\* C14: every descent step of VCycle() leaves coarse_src_e[d-1] = F_e(U) +
\* R(coarse_src_e[d] - F_e(u[d])) with U the restriction of all the variables
C14_CoarseSourceUsesAllVariables ==
  [][ (pc = "descent" /\ loc.eqn_id < u_n /\ min_depth < loc.depth)
      => \A p \in 0 .. Pts(_dIdx(loc.depth - 1)) - 1 :
           coarse_src_h'[loc.eqn_id][_dIdx(loc.depth - 1)].arr[p] = DescentSource[p] ]_vars

\* the same statement for the last equation, whose descent finds every
\* variable restricted
C14_LastEquation ==
  [][ (pc = "descent" /\ loc.eqn_id = u_n - 1 /\ min_depth < loc.depth)
      => \A p \in 0 .. Pts(_dIdx(loc.depth - 1)) - 1 :
           coarse_src_h'[loc.eqn_id][_dIdx(loc.depth - 1)].arr[p] = DescentSource[p] ]_vars

\* C16: the smoother terminates: a Jacobian solve that has made more sweeps
\* than the safety bound is over, its loop condition no longer holds
C16_JacobianSolveEnds ==
  (pc = "jacobi" /\ loc.cnt > JacobiSafetyBound) => ~JacobiContinues

\* the same statement for the solves of a residual that is not exactly zero
C16_PositiveResidual ==
  (pc = "jacobi" /\ loc.cnt > JacobiSafetyBound /\ loc.norm # R(0)) => ~JacobiContinues

\* C17: _jacobianRelax returns false only after more sweeps than the safety
\* bound and when the norm of the latest sweep is not below the norm of the
\* sweep before it
C17_BailOutNeedsNoImprovement ==
  [][ out'.jac_failed # out.jac_failed
      => (loc'.cnt > JacobiSafetyBound /\ ~RLt(loc'.norm_r, loc.norm_r)) ]_vars

\* what the bail-out does guarantee: the safety bound is exceeded and the
\* latest norm is not zero
C17_BailOutNeedsNonzeroNorm ==
  [][ out'.jac_failed # out.jac_failed
      => (loc'.cnt > JacobiSafetyBound /\ loc'.norm_r # R(0)) ]_vars

\* the pre-step u plus (1 - t/100) times the correction
SteppedBy(t) == AddDamping(out.before, damping_v_h, _dIdx(loc.rdepth), Q(100 - t, 100))

\* step factor 1 - t/100 brings the squared residual within the reference norm
Accepts(t) == RLe(LineSearchSum(SteppedBy(t), coarse_src_h, loc.rdepth), loc.norm)

C19_ToleranceMetMeansNoStep ==
  [][ (/\ pc = "relax"
       /\ RLe(_getMaxResidualAllEqs(u_h, coarse_src_h, loc.rdepth), relaxation_tolerance))
      => (pc' # "jacobi" /\ UNCHANGED gridvars) ]_vars

\* the same statement for a maximum residual strictly below the tolerance
C19_StrictlyBelowTolerance ==
  [][ (/\ pc = "relax"
       /\ RLt(_getMaxResidualAllEqs(u_h, coarse_src_h, loc.rdepth), relaxation_tolerance))
      => (pc' = "returned" /\ UNCHANGED gridvars) ]_vars

\* C20: the coefficients of _evaluateIterationForJacEquation(e, ..., u_id = e)
\* split the linearization: coef_a + coef_b * damping_v[e][x] is the value of
\* _evaluateDerEllipticEquation(e, ..., u_id = e), at every depth and site
C20_JacobianSplit ==
  \A eqn_id \in 0 .. u_n - 1 :
    \A depth_idx \in 0 .. max_depth_idx : \A p \in 0 .. Pts(depth_idx) - 1 :
      LET i == SiteI(p, nx_h[depth_idx], ny_h[depth_idx], nz_h[depth_idx])
          j == SiteJ(p, nx_h[depth_idx], ny_h[depth_idx], nz_h[depth_idx])
          k == SiteK(p, nx_h[depth_idx], ny_h[depth_idx], nz_h[depth_idx])
          coef == _evaluateIterationForJacEquation(u_h, damping_v_h, eqn_id, depth_idx,
                                                   i, j, k, eqn_id)
      IN  RAdd(coef[1], RMul(coef[2], damping_v_h[eqn_id][depth_idx].arr[p]))
            = _evaluateDerEllipticEquation(u_h, damping_v_h, eqn_id, depth_idx,
                                           i, j, k, eqn_id)

\* an equation with first-derivative, second-derivative and laplacian atoms of
\* its own variable has, at some site, nonzero coef_a, coef_b and damping_v
C20_Witness ==
  \E eqn_id \in 0 .. u_n - 1 :
    /\ \A lo \in {2, 5, 11} :
         \E m \in 0 .. molecule_n[eqn_id] - 1 : \E a \in 1 .. eqns[eqn_id][m].atom_n :
           /\ eqns[eqn_id][m].atoms[a].type \in lo .. lo + 2
           /\ eqns[eqn_id][m].atoms[a].u_id = eqn_id
    /\ \E p \in 0 .. Pts(max_depth_idx) - 1 :
         LET coef == _evaluateIterationForJacEquation(
                       u_h, damping_v_h, eqn_id, max_depth_idx,
                       SiteI(p, nx_h[max_depth_idx], ny_h[max_depth_idx], nz_h[max_depth_idx]),
                       SiteJ(p, nx_h[max_depth_idx], ny_h[max_depth_idx], nz_h[max_depth_idx]),
                       SiteK(p, nx_h[max_depth_idx], ny_h[max_depth_idx], nz_h[max_depth_idx]),
                       eqn_id)
         IN  /\ coef[1] # R(0)
             /\ coef[2] # R(0)
             /\ damping_v_h[eqn_id][max_depth_idx].arr[p] # R(0)

\* S: the squared residual norm of approximation uh at the smoother's depth
ResidualNorm(uh) == SquaredResidual(uh, coarse_src_h, u_n - 1, _dIdx(loc.rdepth))

\* C21: inside a smoother invocation the squared residual norm never grows:
\* the iteration head and the Jacobian solve leave u and the source alone,
\* and an accepted line search ends the iteration with a norm that is at most
\* the norm of the u the iteration started from (out.before)
C21_ResidualNormNeverIncreases ==
  [][ /\ pc \in {"relax", "jacobi"} => (u_h' = u_h /\ coarse_src_h' = coarse_src_h)
      /\ pc = "lambda" => (out'.before = u_h /\ coarse_src_h' = coarse_src_h)
      /\ (pc = "search" /\ pc' \in {"relax", "returned"})
           => /\ out'.before = out.before
              /\ coarse_src_h' = coarse_src_h
              /\ RLe(ResidualNorm(u_h'), ResidualNorm(out.before)) ]_vars

\* an accepted line search has ended an iteration with a smaller norm
C21_Witness ==
  /\ pc = "relax"
  /\ loc.s > 0
  /\ out.before # <<>>
  /\ ~out.ls_failed
  /\ RLt(ResidualNorm(u_h), ResidualNorm(out.before))

\* C12: the variant newton smooths as inexact_newton does: an iteration of the
\* smoother that has iterations left and a maximal residual not below the
\* tolerance computes norm and jac_rhs, zeroes damping_v and enters the
\* Jacobian solve
C12_NewtonIsInexactNewton ==
  [][ (/\ pc = "relax"
       /\ relax_scheme = "newton"
       /\ loc.s < loc.max_iterations
       /\ ~RLt(_getMaxResidualAllEqs(u_h, coarse_src_h, loc.rdepth), relaxation_tolerance))
      => /\ pc' = "jacobi"
         /\ jac_rhs_h' = JacRhs(u_h, coarse_src_h, jac_rhs_h, _dIdx(loc.rdepth))
         /\ damping_v_h' = ZeroDamping(damping_v_h, _dIdx(loc.rdepth)) ]_vars

\* the finest grid of variable e holds a strictly positive and a strictly
\* negative value
ChangesSign(e) ==
  /\ \E p \in 0 .. Pts(max_depth_idx) - 1 : u_h[e][max_depth_idx].arr[p][1] > 0
  /\ \E p \in 0 .. Pts(max_depth_idx) - 1 : u_h[e][max_depth_idx].arr[p][1] < 0

\* C10: after the final cycle the singularity warning of variable e is emitted
\* exactly when the finest u_e changes sign
C10_WarningIffSignChange ==
  (pc = "done" /\ loc.call = "VCycles")
    => \A e \in 0 .. u_n - 1 : out.warned[e] <=> ChangesSign(e)

----------------------------------------------------------------------------
(* one call of a transfer operator on the scratch hierarchy of variable 0,  *)
(* on grids of every parity and with any content left by earlier work       *)

MaxN == 4
MaxDepth == 3

\* the contents a grid of the scratch hierarchy may hold
TransferFields == {Uniform(R(1)), Uniform(Q(-3, 2)), Ramp(R(1))}

TransferProblems ==
  { ProblemOn(nx, ny, nz, depth, LinearEqs, LinearRho, <<Uniform(R(0))>>,
              <<fine, coarse>>, R(5), 2) :
      nx \in 1 .. MaxN, ny \in {2, 3}, nz \in {2, 3}, depth \in 2 .. MaxDepth,
      fine \in TransferFields, coarse \in TransferFields }

InitTransfer ==
  /\ \E P \in TransferProblems : ConstructedWith(P, BuildEqns(P.eqs))
  /\ pc = "transfer"
  /\ loc = Loc0
  /\ log = <<>>
  /\ out = Out0

\* _restrictFine2coarse(tmp_h[0], fine_depth)
Restrict ==
  /\ pc = "transfer"
  /\ \E fine_depth \in min_depth + 1 .. max_depth :
       /\ tmp_h' = [tmp_h EXCEPT ![0] = _restrictFine2coarse(tmp_h[0], fine_depth)]
       /\ out' = [out EXCEPT !.last = <<"restrict", fine_depth>>, !.before = tmp_h[0]]
  /\ pc' = "transferred"
  /\ UNCHANGED <<cfgvars, eqns, u_h, coarse_src_h, jac_rhs_h, damping_v_h, rho_h, loc, log>>

\* _interpolateCoarse2fine(tmp_h[0], coarse_depth) returns: the cells of the
\* fine array hold what the scatter added to them; when the scatter addressed
\* locations past the end of the array, memory behind it has been written
Interpolate ==
  /\ pc = "transfer"
  /\ \E coarse_depth \in min_depth .. max_depth - 1 :
       /\ tmp_h' = [tmp_h EXCEPT ![0] = _interpolateCoarse2fine(tmp_h[0], coarse_depth)]
       /\ out' = [out EXCEPT !.last = <<"interpolate", coarse_depth>>,
                             !.before = tmp_h[0],
                             !.overrun = InterpOverruns(tmp_h[0], coarse_depth)]
  /\ pc' = "transferred"
  /\ UNCHANGED <<cfgvars, eqns, u_h, coarse_src_h, jac_rhs_h, damping_v_h, rho_h, loc, log>>

\* the other outcome of a scatter that addresses locations past the end of
\* the fine array: the process is stopped at such a write.  The first write of
\* the loop, offset (-1,-1,-1) of coarse cell 0, goes to the last location the
\* scatter addresses, so the fine array is left as _zeroGrid made it
InterpolateFaults ==
  /\ pc = "transfer"
  /\ \E coarse_depth \in min_depth .. max_depth - 1 :
       /\ InterpOverruns(tmp_h[0], coarse_depth)
       /\ tmp_h' = [tmp_h EXCEPT ![0][_dIdx(coarse_depth + 1)] = _zeroGrid(@)]
       /\ out' = [out EXCEPT !.last = <<"interpolate", coarse_depth>>,
                             !.before = tmp_h[0],
                             !.overrun = TRUE]
  /\ pc' = "crashed"
  /\ UNCHANGED <<cfgvars, eqns, u_h, coarse_src_h, jac_rhs_h, damping_v_h, rho_h, loc, log>>

\* the threads of the parallel region
MaxThreads == 2

\* _restrictFine2coarse(tmp_h[0], fine_depth) enters its parallel for: the
\* rows i of the coarse loop are dealt out in contiguous chunks, thread t gets
\* its private i, j, k; fi, fj, fk are declared outside the loop and not named
\* in private(i,j,k), so there is one fi, fj, fk for all threads
StartRestrict ==
  /\ pc = "transfer"
  /\ \E fine_depth \in min_depth + 1 .. max_depth :
       LET fine == tmp_h[0][_dIdx(fine_depth)]
           start(t) ==
             [i |-> ((t - 1) * RestrictLoopDim(fine.nx)) \div MaxThreads,
              hi |-> (t * RestrictLoopDim(fine.nx)) \div MaxThreads,
              j |-> 0, k |-> 0,
              at |-> IF /\ ((t - 1) * RestrictLoopDim(fine.nx)) \div MaxThreads
                             < (t * RestrictLoopDim(fine.nx)) \div MaxThreads
                        /\ RestrictLoopDim(fine.ny) > 0
                        /\ RestrictLoopDim(fine.nz) > 0
                     THEN "fi" ELSE "done"]
       IN  /\ loc' = [loc EXCEPT !.depth = fine_depth,
                                 !.thread = [t \in 1 .. MaxThreads |-> start(t)]]
           /\ out' = [out EXCEPT !.last = <<"threads", fine_depth>>, !.before = tmp_h[0]]
           /\ pc' = IF \A t \in 1 .. MaxThreads : start(t).at = "done"
                    THEN "transferred" ELSE "restricting"
  /\ UNCHANGED <<cfgvars, eqns, gridvars, log>>

\* thread t executes fi = i*2, fj = j*2 or fk = k*2
ThreadAssign(t) ==
  /\ pc = "restricting"
  /\ loc.thread[t].at \in {"fi", "fj", "fk"}
  /\ loc' = [loc EXCEPT
               !.fi = IF loc.thread[t].at = "fi" THEN loc.thread[t].i * 2 ELSE @,
               !.fj = IF loc.thread[t].at = "fj" THEN loc.thread[t].j * 2 ELSE @,
               !.fk = IF loc.thread[t].at = "fk" THEN loc.thread[t].k * 2 ELSE @,
               !.thread[t].at = IF @ = "fi" THEN "fj" ELSE IF @ = "fj" THEN "fk" ELSE "store"]
  /\ UNCHANGED <<cfgvars, eqns, gridvars, pc, log, out>>

\* thread t executes the assignment to coarse_grid[H_INDEX(i,j,k,...)], reading
\* fi, fj, fk as they are now, and moves to its next iteration; the region
\* ends when every thread has run out of iterations
ThreadStore(t) ==
  /\ pc = "restricting"
  /\ loc.thread[t].at = "store"
  /\ LET fine == tmp_h[0][_dIdx(loc.depth)]
         me == loc.thread[t]
         nxt == IF me.k + 1 < RestrictLoopDim(fine.nz)
                THEN [me EXCEPT !.k = @ + 1, !.at = "fi"]
                ELSE IF me.j + 1 < RestrictLoopDim(fine.ny)
                THEN [me EXCEPT !.j = @ + 1, !.k = 0, !.at = "fi"]
                ELSE IF me.i + 1 < me.hi
                THEN [me EXCEPT !.i = @ + 1, !.j = 0, !.k = 0, !.at = "fi"]
                ELSE [me EXCEPT !.at = "done"]
     IN  /\ tmp_h' = [tmp_h EXCEPT
                        ![0][_dIdx(loc.depth) - 1].arr[
                            H_INDEX(me.i, me.j, me.k, RestrictLoopDim(fine.nx),
                                    RestrictLoopDim(fine.ny), RestrictLoopDim(fine.nz))] =
                          RestrictStencil(fine.arr, loc.fi, loc.fj, loc.fk,
                                          fine.nx, fine.ny, fine.nz)]
         /\ loc' = [loc EXCEPT !.thread[t] = nxt]
         /\ pc' = IF \A s \in 1 .. MaxThreads \ {t} : loc.thread[s].at = "done"
                     /\ nxt.at = "done"
                  THEN "transferred" ELSE "restricting"
  /\ UNCHANGED <<cfgvars, eqns, u_h, coarse_src_h, jac_rhs_h, damping_v_h, rho_h, log, out>>

NextTransfer ==
  \/ Restrict
  \/ Interpolate
  \/ InterpolateFaults
  \/ StartRestrict
  \/ \E t \in 1 .. MaxThreads : ThreadAssign(t)
  \/ \E t \in 1 .. MaxThreads : ThreadStore(t)

SpecTransfer == InitTransfer /\ [][NextTransfer]_vars

\* m = ceil(n / 2)
IsCeilHalf(m, n) == 2 * m - 1 <= n /\ n <= 2 * m

\* the grids of hierarchy h have the constructor's dimensions
HierarchyDims(h) ==
  /\ DOMAIN h = 0 .. max_depth_idx
  /\ h[max_depth_idx].nx = NX /\ h[max_depth_idx].ny = NY /\ h[max_depth_idx].nz = NZ
  /\ \A d \in 1 .. max_depth_idx :
       /\ IsCeilHalf(h[d - 1].nx, h[d].nx)
       /\ IsCeilHalf(h[d - 1].ny, h[d].ny)
       /\ IsCeilHalf(h[d - 1].nz, h[d].nz)
  /\ \A d \in 0 .. max_depth_idx :
       /\ h[d].pts = h[d].nx * h[d].ny * h[d].nz
       /\ DOMAIN h[d].arr = 0 .. h[d].pts - 1

\* C6: for every variable and every hierarchy the grid at max_depth has the
\* dimensions (NX, NY, NZ), the grid at d - 1 has each dimension ceil(n_d / 2),
\* and pts = nx * ny * nz at every depth
C6_HierarchyDimensions ==
  \A e \in 0 .. u_n - 1 :
    /\ HierarchyDims(u_h[e])
    /\ HierarchyDims(coarse_src_h[e])
    /\ HierarchyDims(tmp_h[e])
    /\ HierarchyDims(damping_v_h[e])
    /\ HierarchyDims(jac_rhs_h[e])
    /\ \A m \in 0 .. molecule_n[e] - 1 : HierarchyDims(rho_h[e][m])

C6_Witness ==
  /\ pc = "transfer"
  /\ max_depth = 3
  /\ NX = 3 /\ NY = 3 /\ NZ = 2
  /\ nx_h[1] = 2 /\ nx_h[0] = 1
  /\ nz_h[1] = 1 /\ nz_h[0] = 1

\* every cell of the array equals c
AllCells(arr, c) == \A p \in DOMAIN arr : arr[p] = c

\* the array holds one value in all its cells
IsConstant(arr) == \A p \in DOMAIN arr : arr[p] = arr[0]

\* C7: when the fine grid is constant c, every cell of the coarse grid equals
\* c after _restrictFine2coarse, for even and odd fine sizes
C7_RestrictionPreservesConstants ==
  (out.last[1] = "restrict" /\ IsConstant(out.before[_dIdx(out.last[2])].arr))
    => AllCells(tmp_h[0][_dIdx(out.last[2]) - 1].arr,
                out.before[_dIdx(out.last[2])].arr[0])

\* C8: when the coarse grid is constant c, the call _interpolateCoarse2fine
\* returns with every cell of the fine grid equal to c, whatever the fine grid
\* held before
C8_ProlongationPreservesConstants ==
  (out.last[1] = "interpolate" /\ IsConstant(out.before[_dIdx(out.last[2])].arr))
    => /\ pc = "transferred"
       /\ AllCells(tmp_h[0][_dIdx(out.last[2]) + 1].arr,
                   out.before[_dIdx(out.last[2])].arr[0])

----------------------------------------------------------------------------
(* setting the sources of a constructed solver and restricting them to the  *)
(* coarser depths, on grids of every parity                                 *)

MaxSources == 2

InitSource ==
  /\ \E P \in TransferProblems :
       /\ P.tmp = <<Uniform(R(1)), Uniform(R(1))>>
       /\ ConstructedWith(P, BuildEqns(P.eqs))
  /\ pc = "source"
  /\ loc = Loc0
  /\ log = <<>>
  /\ out = Out0

\* the caller runs setPolySrcAtPt(eqn_id, mol_id, i, j, k, value) at the first
\* or at the last site of the finest grid
SetPolySrcAtPt ==
  /\ pc = "source"
  /\ Len(log) < MaxSources
  /\ \E eqn_id \in 0 .. u_n - 1, value \in {R(1), R(-2)}, far \in BOOLEAN :
       \E mol_id \in 0 .. molecule_n[eqn_id] - 1 :
         LET i == IF far THEN NX - 1 ELSE 0
             j == IF far THEN NY - 1 ELSE 0
             k == IF far THEN NZ - 1 ELSE 0
         IN  /\ rho_h' = setPolySrcAtPt(rho_h, eqn_id, mol_id, i, j, k, value)
             /\ log' = Append(log, <<"source", H_INDEX(i, j, k, NX, NY, NZ), value[1]>>)
  /\ UNCHANGED <<cfgvars, eqns, u_h, tmp_h, coarse_src_h, jac_rhs_h, damping_v_h, pc, loc, out>>

\* the caller runs initializeRhoHeirarchy()
InitializeRhoHeirarchy ==
  /\ pc = "source"
  /\ rho_h' = initializeRhoHeirarchy(rho_h, max_depth)
  /\ out' = [out EXCEPT !.last = <<"rho", max_depth>>, !.before = rho_h]
  /\ pc' = "sourced"
  /\ UNCHANGED <<cfgvars, eqns, u_h, tmp_h, coarse_src_h, jac_rhs_h, damping_v_h, loc, log>>

NextSource ==
  \/ SetPolySrcAtPt
  \/ InitializeRhoHeirarchy

SpecSource == InitSource /\ [][NextSource]_vars

\* the grid coarse holds, at every one of its cells (i, j, k), the 27-point
\* average of the grid fine around the fine cell (2i, 2j, 2k)
IsRestrictionOf(coarse, fine) ==
  \A p \in 0 .. coarse.nx * coarse.ny * coarse.nz - 1 :
    coarse.arr[p] =
      RestrictStencil(fine.arr,
                      2 * SiteI(p, coarse.nx, coarse.ny, coarse.nz),
                      2 * SiteJ(p, coarse.nx, coarse.ny, coarse.nz),
                      2 * SiteK(p, coarse.nx, coarse.ny, coarse.nz),
                      fine.nx, fine.ny, fine.nz)

\* C15: _restrictFine2coarse(h, d) leaves in every cell of the allocated coarse
\* grid the 27-point average centered on fine cell (2i, 2j, 2k), for odd and
\* for even fine dimensions
C15_RestrictionWritesEveryCell ==
  out.last[1] = "restrict"
    => IsRestrictionOf(tmp_h[0][_dIdx(out.last[2]) - 1], out.before[_dIdx(out.last[2])])

\* the same statement for the calls whose fine grid has even dimensions
C15_EvenFine ==
  (/\ out.last[1] = "restrict"
   /\ nx_h[_dIdx(out.last[2])] % 2 = 0
   /\ ny_h[_dIdx(out.last[2])] % 2 = 0
   /\ nz_h[_dIdx(out.last[2])] % 2 = 0)
    => IsRestrictionOf(tmp_h[0][_dIdx(out.last[2]) - 1], out.before[_dIdx(out.last[2])])

\* C22: when the threads of _restrictFine2coarse have finished, every coarse
\* cell of the loop holds the average around its own fine cell (2i, 2j, 2k),
\* as the loop run by one thread leaves it
C22_RestrictionIsParallelSafe ==
  (pc = "transferred" /\ out.last[1] = "threads")
    => tmp_h[0] = _restrictFine2coarse(out.before, out.last[2])

\* the same statement for the calls whose coarse loop has a single row i, all
\* of whose iterations one thread runs
C22_SingleRow ==
  (/\ pc = "transferred"
   /\ out.last[1] = "threads"
   /\ RestrictLoopDim(nx_h[_dIdx(out.last[2])]) <= 1)
    => tmp_h[0] = _restrictFine2coarse(out.before, out.last[2])

\* C11: after initializeRhoHeirarchy() the rho grid of every equation and
\* molecule at every depth below max_depth is the restriction of the rho grid
\* one depth finer, and the finest rho grid holds what setPolySrcAtPt wrote
C11_RhoHierarchyIsRestricted ==
  out.last[1] = "rho" =>
    \A e \in 0 .. u_n - 1 : \A m \in 0 .. molecule_n[e] - 1 :
      /\ rho_h[e][m][max_depth_idx].arr = out.before[e][m][max_depth_idx].arr
      /\ \A d \in 0 .. max_depth_idx - 1 :
           IsRestrictionOf(rho_h[e][m][d], rho_h[e][m][d + 1])

\* C11 on the grids whose sizes are even at every depth that is restricted
C11_EvenSizes ==
  (\A d \in 1 .. max_depth_idx : nx_h[d] % 2 = 0 /\ ny_h[d] % 2 = 0 /\ nz_h[d] % 2 = 0)
    => C11_RhoHierarchyIsRestricted

----------------------------------------------------------------------------
(* building an equation system atom by atom, and the first evaluation of    *)
(* the solve                                                                *)

MaxAtoms == 2

\* two variables on a 2 x 2 x 2 grid of one depth; equation 0 has one molecule
\* of up to MaxAtoms atoms, equation 1 one molecule of one atom
BuildProblem ==
  ProblemOn(2, 2, 2, 1,
            << << <<R(1), <<>> >> >>, << <<R(1), <<>> >> >> >>,
            << <<Uniform(R(3))>>, <<Uniform(R(3))>> >>,
            <<Ramp(R(1)), Uniform(R(2))>>,
            <<Uniform(R(0)), Uniform(R(0))>>, Q(1, 10), 2)

\* eqns[eqn_id][mol_id].init(atom_n_in, 1.0) for the molecules
InitializedEqns ==
  Stored([e \in 0 .. 1 |->
            [m \in 0 .. 0 |-> molecule_init(IF e = 0 THEN MaxAtoms ELSE 1, R(1))]])

\* the atoms a caller hands in: well-formed ones, an unknown type above and
\* one below the known types, and a u_id past and one before the variables
CallerAtoms ==
  { Const, Poly(0, 2), Lap(1), Atom(12, 0, 0), Atom(-1, 0, 0), Poly(2, 1), Der1(-1, 1) }

InitBuild ==
  /\ ConstructedWith(BuildProblem, InitializedEqns)
  /\ pc = "build"
  /\ loc = Loc0
  /\ log = <<>>
  /\ out = Out0

\* add_atom_to_eqn(atom_in, molecule_id, eqn_id), within the molecule's
\* allocation
AddAtomToEqn ==
  /\ pc = "build"
  /\ \E atom_in \in CallerAtoms, eqn_id \in 0 .. u_n - 1 :
       \E molecule_id \in 0 .. molecule_n[eqn_id] - 1 :
         /\ eqns[eqn_id][molecule_id].atom_n < eqns[eqn_id][molecule_id].cap
         /\ eqns' = add_atom_to_eqn(eqns, atom_in, molecule_id, eqn_id)
         /\ out' = [out EXCEPT !.last = <<"add", eqn_id>>]
  /\ UNCHANGED <<cfgvars, gridvars, pc, loc, log>>

\* the evaluator reads der_type[ad.type - 2] and u_h[ad.u_id] inside their
\* allocations for this atom
AtomInBounds(ad) == ad.type = 0 \/ (ad.type >= 1 /\ ad.u_id \in 0 .. u_n - 1)

EquationInBounds(eqn_id) ==
  \A m \in 0 .. molecule_n[eqn_id] - 1 :
    \A a \in 1 .. eqns[eqn_id][m].atom_n : AtomInBounds(eqns[eqn_id][m].atoms[a])

\* what a read outside an allocation may give
Indeterminate == {R(0), R(-7)}

\* the solve starts: _evaluateEllipticEquationPt of equation eqn_id at the
\* first site of the finest grid.  An atom that makes it read outside an
\* allocation makes the value indeterminate
StartSolve ==
  /\ pc = "build"
  /\ \E eqn_id \in 0 .. u_n - 1 :
       /\ \E value \in IF EquationInBounds(eqn_id)
                       THEN {_evaluateEllipticEquationPt(u_h, eqn_id, max_depth_idx, 0, 0, 0)}
                       ELSE Indeterminate :
            out' = [out EXCEPT !.value = value, !.last = <<"evaluate", eqn_id>>]
  /\ pc' = "evaluated"
  /\ UNCHANGED <<cfgvars, eqns, gridvars, loc, log>>

\* the other outcome of a read outside an allocation: the process is stopped
StartSolveFaults ==
  /\ pc = "build"
  /\ \E eqn_id \in 0 .. u_n - 1 :
       /\ ~EquationInBounds(eqn_id)
       /\ out' = [out EXCEPT !.last = <<"evaluate", eqn_id>>]
  /\ pc' = "crashed"
  /\ UNCHANGED <<cfgvars, eqns, gridvars, loc, log>>

NextBuild ==
  \/ AddAtomToEqn
  \/ StartSolve
  \/ StartSolveFaults

SpecBuild == InitBuild /\ [][NextBuild]_vars

\* an atom of a known type 0..11 that names a variable of the system
KnownAtom(ad) == ad.type \in 0 .. 11 /\ ad.u_id \in 0 .. u_n - 1

\* C5: the build API rejects an invalid AST: no atom of an unknown type or
\* with a u_id outside [0, N) ever enters the equation system, and no
\* equation holding a molecule without atoms is ever evaluated by a solve
C5_BuildRejectsInvalidAst ==
  /\ \A e \in 0 .. u_n - 1 : \A m \in 0 .. molecule_n[e] - 1 :
       \A a \in 1 .. eqns[e][m].atom_n : KnownAtom(eqns[e][m].atoms[a])
  /\ (out.last[1] = "evaluate"
        => \A m \in 0 .. molecule_n[out.last[2]] - 1 : eqns[out.last[2]][m].atom_n > 0)

====
